---- MODULE Spec2Model ----
(***************************************************************************)
(* A model of the float64 sampling core of go-metrics:                     *)
(*   sample_float64.go   UniformSampleFloat64, ExpDecaySampleFloat64,      *)
(*                       SampleFloat64Snapshot, the heap, the statistics   *)
(*   histogram (float64) StandardHistogramFloat64, its snapshot            *)
(*                                                                         *)
(* Go slices are modelled as a header [a, n] (backing array, length) over  *)
(* a store `mem` of backing arrays, so that a copy and an alias differ.    *)
(* float64 values are small integers (exact in float64).  A heap key       *)
(* exp(alpha*secs)/u is kept as its base-2 logarithm: alpha stands for the *)
(* float alpha*ln(2)/TimeUnit and u for a power of two, so the key is      *)
(* 2^x for an integer x, with the float64 overflow/underflow outcomes      *)
(* +Inf, 0 and NaN kept as separate values.                                *)
(***************************************************************************)
EXTENDS Integers, Sequences, FiniteSets, Bags, TLC

(* ---------------------------- bounds ----------------------------------- *)
MaxCap == 2
MaxVal == 2
MaxCount == 3
MaxTime == 3

Capacities == 1..MaxCap
Vals == 1..MaxVal
Kinds == {"uniform", "expdecay"}

(* ------------------------ time and float keys -------------------------- *)
\* const rescaleThreshold = time.Hour, in seconds
rescaleThreshold == 3600
\* one model time unit, in seconds; the clock advances in whole units
TimeUnit == rescaleThreshold \div 2
\* the clock advances by one unit, or by more than the rescale threshold
TimeSteps == {TimeUnit, rescaleThreshold + TimeUnit}
\* only the steps that pass the rescale deadline
RescaleSteps == {rescaleThreshold + TimeUnit}
\* alpha = n stands for the float64 n*ln(2)/TimeUnit.  With BigAlpha the
\* product of alpha and the seconds of a long idle period passes 709.78, where
\* math.Exp overflows to +Inf, and 745.13, where math.Exp(-x) underflows to 0:
\* alpha = 0.015 and an Update after 14 idle hours
BigAlpha == 600
Alphas == {1, BigAlpha}
\* rand.Float64() is in [0,1): draw j > 0 stands for u = 2^-j, draw 0 for u = 0.0
Draws == {0, 1, 2}

\* float64 exponent range of a positive finite number 2^x
MaxExp == 1023
MinExp == -1074
\* +Inf, 0.0 and NaN, outside the exponents of the finite positive numbers
KInf == MaxExp + 1
KZero == MinExp - 1
KNaN == KInf + 1

\* a float64 2^x after rounding to the representable range
Norm(x) == IF x > MaxExp THEN KInf ELSE IF x < MinExp THEN KZero ELSE x

\* math.Exp(secs * alpha) as a key
ExpKey(secs, a) == Norm((a * secs) \div TimeUnit)

\* k / u for the draw j
KeyDiv(k, j) ==
  IF j = 0 THEN (IF k = KZero THEN KNaN ELSE KInf)
  ELSE IF k \in {KInf, KZero, KNaN} THEN k ELSE Norm(k + j)

\* k * f for two keys (float64 multiplication of non-negative numbers)
KeyMul(k, f) ==
  IF k = KNaN \/ f = KNaN THEN KNaN
  ELSE IF (k = KInf /\ f = KZero) \/ (k = KZero /\ f = KInf) THEN KNaN
  ELSE IF k = KInf \/ f = KInf THEN KInf
  ELSE IF k = KZero \/ f = KZero THEN KZero
  ELSE Norm(k + f)

\* h.s[a].k < h.s[b].k on float64: every comparison with NaN is false
KeyLess(k1, k2) == k1 # KNaN /\ k2 # KNaN /\ k1 < k2

(* ------------------------------ memory --------------------------------- *)
\* backing arrays of []float64 slices; address 0 is the nil slice
NAddr == 3
Addr == 1..NAddr
NilSlice == [a |-> 0, n |-> 0]

VARIABLES
  kind,          \* which live reservoir the histogram composes
  reservoirSize, \* s.reservoirSize
  alpha,         \* ExpDecaySampleFloat64.alpha
  count,         \* s.count
  uvalues,       \* UniformSampleFloat64.values, a slice header [a, n]
  mem,           \* backing arrays of the []float64 slices
  heap,          \* ExpDecaySampleFloat64.values: [s: backing array, n: len(h.s)]
  t0, t1,        \* ExpDecaySampleFloat64.t0, t1 (seconds)
  now,           \* time.Now() (seconds)
  snap,          \* the frozen instance most recently created
  panicked,      \* the panic raised by the last call, "" when it returned
  pushed,        \* history: bag of the values pushed since construction or Clear
  caller,        \* a []float64 slice header the calling code holds
  pc,            \* where each goroutine is in its call
  loc,           \* the local variables of each goroutine's call
  ret,           \* what each goroutine's call returned
  orig,          \* history: the values a snapshot was constructed with
  smutex,        \* the reservoir's mutex: 0, or the goroutine holding it
  hmutex,        \* StandardHistogramFloat64.mutex, likewise
  UseNilMetrics, \* the global switch the constructors read
  hist,          \* which histogram NewHistogramFloat64 returned
  recv,          \* the instance the caller's next call is made on
  last           \* what the call the caller has just made returned

\* the switch, the histogram variant and the caller's handles
lifeVars == <<UseNilMetrics, hist, recv, last>>

\* what the specifications of the one-caller reservoir and histogram leave alone
auxVars == <<caller, pc, loc, ret, orig, smutex, hmutex, lifeVars>>

sampleVars == <<kind, reservoirSize, alpha, count, uvalues, mem, heap, t0, t1>>
vars == <<kind, reservoirSize, alpha, count, uvalues, mem, heap, t0, t1,
          now, snap, panicked, pushed, caller, pc, loc, ret, orig, smutex, hmutex,
          UseNilMetrics, hist, recv, last>>

Range(f) == {f[i] : i \in DOMAIN f}
BagOfSeq(q) == [x \in Range(q) |-> Cardinality({i \in DOMAIN q : q[i] = x})]
Min2(a, b) == IF a < b THEN a ELSE b

\* the elements a slice header sees
SliceSeq(m, sl) == IF sl.a = 0 THEN <<>> ELSE SubSeq(m[sl.a], 1, sl.n)

\* make([]float64, n, c): a zeroed array of c elements
MakeArray(c) == [i \in 1..c |-> 0]

\* the lowest address no slice header in `refs` points to
Alloc(refs) == CHOOSE a \in Addr : a \notin {r.a : r \in refs} /\
                 \A b \in Addr : b \notin {r.a : r \in refs} => a <= b

\* arrays no slice header points to are garbage
Collect(m, refs) == [a \in Addr |-> IF a \in {r.a : r \in refs} THEN m[a] ELSE <<>>]

(* ------------------------------- heap ---------------------------------- *)
ZeroEntry == [k |-> KZero, v |-> 0]

\* newExpDecaySampleFloat64Heap(reservoirSize)
newExpDecaySampleFloat64Heap(c) == [s |-> [i \in 0..(c - 1) |-> ZeroEntry], n |-> 0]

HeapSwap(s, i, j) == [s EXCEPT ![i] = s[j], ![j] = s[i]]

\* (j - 1) / 2 in Go truncates toward zero
Parent(j) == IF j = 0 THEN 0 ELSE (j - 1) \div 2

RECURSIVE up(_, _)
up(s, j) ==
  LET i == Parent(j) IN
  IF i = j \/ ~KeyLess(s[j].k, s[i].k) THEN s ELSE up(HeapSwap(s, i, j), i)

RECURSIVE down(_, _, _)
down(s, i, n) ==
  LET j1 == 2 * i + 1 IN
  IF j1 >= n THEN s
  ELSE LET j2 == j1 + 1
           j  == IF j2 < n /\ ~KeyLess(s[j1].k, s[j2].k) THEN j2 ELSE j1
       IN IF ~KeyLess(s[j].k, s[i].k) THEN s ELSE down(HeapSwap(s, i, j), j, n)

HeapClear(h) == [h EXCEPT !.n = 0]

HeapPush(h, e) == [s |-> up([h.s EXCEPT ![h.n] = e], h.n), n |-> h.n + 1]

\* Pop leaves the removed entry in the backing array, past the new length
HeapPop(h) ==
  LET n == h.n - 1 IN
  [s |-> down(HeapSwap(h.s, 0, n), 0, n), n |-> h.n - 1]

HeapSize(h) == h.n

\* Entries past len(h.s) are dead once a call has returned: every index
\* expression of the source is bounds-checked against len(h.s), and Push
\* writes h.s[n] before anything reads it.  The state keeps them zeroed.
DropDead(h) == [h EXCEPT !.s = [i \in DOMAIN h.s |-> IF i < h.n THEN h.s[i] ELSE ZeroEntry]]

\* h.Values(): the slice h.s itself, entries 0..n-1
HeapEntries(h) == [i \in 1..h.n |-> h.s[i - 1]]

(* --------------------------- sorting, statistics ----------------------- *)
\* float64Slice.Swap
SliceSwap(q, i, j) == [q EXCEPT ![i] = q[j], ![j] = q[i]]

\* sort.Sort(values) on a short slice: insertion sort by Less and Swap
RECURSIVE InsertDown(_, _)
InsertDown(q, j) ==
  IF j > 1 /\ q[j] < q[j - 1] THEN InsertDown(SliceSwap(q, j, j - 1), j - 1) ELSE q

RECURSIVE SortFrom(_, _)
SortFrom(q, i) == IF i > Len(q) THEN q ELSE SortFrom(InsertDown(q, i), i + 1)

\* a sort that leaves its smallest value in every slot
SortSliceFill(q) == [i \in 1..Len(q) |-> SortFrom(q, 2)[1]]

SortSlice(q) == SortFrom(q, 2)

\* a percentile p is given in PDen-ths (p = pn / PDen) and a score is returned
\* in PDen-ths too, so the interpolation stays exact
PDen == 4
Percents == 0..PDen
\* p is any float64: also one below 0 and one above 1
AnyPercents == (0 - 1)..(PDen + 1)

\* a score that takes the lower neighbour and does not interpolate
ScoreLowerNeighbour(sorted, pn) ==
  LET size == Len(sorted)
      pos  == pn * (size + 1)
  IN IF size = 0 THEN 0
     ELSE IF pos < PDen THEN sorted[1] * PDen
     ELSE IF pos >= size * PDen THEN sorted[size] * PDen
     ELSE sorted[pos \div PDen] * PDen

\* a score that extends the last interval upwards instead of stopping at the
\* largest value
ScoreExtrapolated(sorted, pn) ==
  LET size == Len(sorted)
      pos  == pn * (size + 1)
  IN IF size = 0 THEN 0
     ELSE IF pos < PDen THEN sorted[1] * PDen
     ELSE IF pos >= size * PDen
       THEN sorted[size] * PDen +
            (IF size > 1 THEN (pos - size * PDen) * (sorted[size] - sorted[size - 1]) ELSE 0)
     ELSE LET lower == sorted[pos \div PDen]
              upper == sorted[(pos \div PDen) + 1]
          IN lower * PDen + (pos % PDen) * (upper - lower)

\* one score of SampleFloat64Percentiles over the sorted values
Score(sorted, pn) ==
  LET size == Len(sorted)
      pos  == pn * (size + 1)            \* pos, in PDen-ths
  IN IF size = 0 THEN 0
     ELSE IF pos < PDen THEN sorted[1] * PDen
     ELSE IF pos >= size * PDen THEN sorted[size] * PDen
     ELSE LET lower == sorted[pos \div PDen]
              upper == sorted[(pos \div PDen) + 1]
          IN lower * PDen + (pos % PDen) * (upper - lower)

\* SampleFloat64Percentile(values, p); it sorts `values` first
SampleFloat64Percentile(q, pn) == Score(SortSlice(q), pn)

\* SampleFloat64Percentiles(values, ps): one score for each p, in the order of ps
SampleFloat64Percentiles(q, ps) ==
  [i \in 1..Len(ps) |-> Score(SortSlice(q), ps[i])]

\* The values are small integers, so the float64 sums below are exact; the
\* quotients are kept as reduced fractions [num, den] instead of being rounded.
RECURSIVE GCD(_, _)
GCD(a, b) == IF b = 0 THEN a ELSE GCD(b, a % b)
Abs(x) == IF x < 0 THEN 0 - x ELSE x
Rat(n, d) == LET g == GCD(Abs(n), d) IN [num |-> n \div g, den |-> d \div g]
RatAdd(x, y) == Rat(x.num * y.den + y.num * x.den, x.den * y.den)
RatSub(x, y) == Rat(x.num * y.den - y.num * x.den, x.den * y.den)
RatMul(x, y) == Rat(x.num * y.num, x.den * y.den)
RatZero == Rat(0, 1)

\* SampleFloat64Sum
RECURSIVE SampleFloat64Sum(_)
SampleFloat64Sum(q) ==
  IF Len(q) = 0 THEN 0 ELSE q[1] + SampleFloat64Sum(Tail(q))

\* SampleFloat64Mean
SampleFloat64Mean(q) ==
  IF Len(q) = 0 THEN RatZero ELSE Rat(SampleFloat64Sum(q), Len(q))

\* a minimum without the test for no values: the loop's start value, which
\* stands above every value, comes back
SampleFloat64MinNoGuard(q) ==
  IF Len(q) = 0 THEN MaxVal + 1
  ELSE CHOOSE x \in {q[i] : i \in DOMAIN q} : \A i \in DOMAIN q : x <= q[i]

\* SampleFloat64Min
SampleFloat64Min(q) ==
  IF Len(q) = 0 THEN 0
  ELSE CHOOSE x \in {q[i] : i \in DOMAIN q} : \A i \in DOMAIN q : x <= q[i]

\* the loop of SampleFloat64Variance: sum += d * d with d = v - m
RECURSIVE SquaredDeviations(_, _)
SquaredDeviations(q, m) ==
  IF Len(q) = 0 THEN RatZero
  ELSE LET d == RatSub(Rat(q[1], 1), m)
       IN RatAdd(RatMul(d, d), SquaredDeviations(Tail(q), m))

\* a variance with the divisor n - 1 of the sample variance
SampleFloat64VarianceBessel(q) ==
  IF Len(q) <= 1 THEN RatZero
  ELSE RatMul(SquaredDeviations(q, SampleFloat64Mean(q)), Rat(1, Len(q) - 1))

\* SampleFloat64Variance
SampleFloat64Variance(q) ==
  IF Len(q) = 0 THEN RatZero
  ELSE RatMul(SquaredDeviations(q, SampleFloat64Mean(q)), Rat(1, Len(q)))

\* math.Sqrt of a fraction: the fraction of the roots when both are perfect
\* squares, and the symbolic root otherwise
IntRoots(n) == {r \in 0..n : r * r = n}
Sqrt(x) ==
  IF IntRoots(x.num) # {} /\ IntRoots(x.den) # {}
    THEN Rat(CHOOSE r \in IntRoots(x.num) : TRUE, CHOOSE r \in IntRoots(x.den) : TRUE)
    ELSE [sqrt |-> x]

\* SampleFloat64StdDev
SampleFloat64StdDev(q) == Sqrt(SampleFloat64Variance(q))

(* --------------------------- UniformSampleFloat64 ---------------------- *)
\* a reservoir that appends whatever its length
UniformStoreUnbounded(m, sl, c, v, r) ==
  [mem |-> [m EXCEPT ![sl.a] = Append(SubSeq(@, 1, sl.n), v)],
   values |-> [sl EXCEPT !.n = sl.n + 1]]

\* a full reservoir that overwrites the slot after the one drawn
UniformStoreNextSlot(m, sl, c, v, r) ==
  IF sl.n < c
    THEN [mem |-> [m EXCEPT ![sl.a][sl.n + 1] = v], values |-> [sl EXCEPT !.n = sl.n + 1]]
    ELSE IF r < sl.n
      THEN [mem |-> [m EXCEPT ![sl.a][((r + 1) % sl.n) + 1] = v], values |-> sl]
      ELSE [mem |-> m, values |-> sl]

\* Update after s.count++: append below capacity, else overwrite slot r or drop
UniformStore(m, sl, c, v, r) ==
  IF sl.n < c
    THEN [mem |-> [m EXCEPT ![sl.a][sl.n + 1] = v], values |-> [sl EXCEPT !.n = sl.n + 1]]
    ELSE IF r < sl.n
      THEN [mem |-> [m EXCEPT ![sl.a][r + 1] = v], values |-> sl]
      ELSE [mem |-> m, values |-> sl]

(* --------------------------- ExpDecaySampleFloat64 --------------------- *)
\* a reservoir that evicts one entry too early
ExpDecayStoreEarly(h, c, a, secs, v, j) ==
  LET h1 == IF HeapSize(h) > 0 /\ HeapSize(h) >= c - 1 THEN HeapPop(h) ELSE h
  IN HeapPush(h1, [k |-> KeyDiv(ExpKey(secs, a), j), v |-> v])

\* s.values.Pop() is called on a full heap; on an empty one (capacity 0) its
\* h.s[0] is out of range
PopPanics(h, c) == HeapSize(h) = c /\ HeapSize(h) = 0

\* update after s.count++: evict the root when full, push the new entry
ExpDecayStore(h, c, a, secs, v, j) ==
  LET h1 == IF HeapSize(h) = c THEN HeapPop(h) ELSE h
  IN HeapPush(h1, [k |-> KeyDiv(ExpKey(secs, a), j), v |-> v])

\* a rescale loop that re-inserts the entry at the root every time
RECURSIVE RescaleLoopRoot(_, _, _, _)
RescaleLoopRoot(h, i, len, f) ==
  IF i >= len THEN h
  ELSE LET e == h.s[0]
       IN RescaleLoopRoot(HeapPush(h, [k |-> KeyMul(e.k, f), v |-> e.v]), i + 1, len, f)

\* the rescale loop ranges over the captured slice, which shares the heap's
\* backing array: entry i is read when iteration i starts
RECURSIVE RescaleLoop(_, _, _, _)
RescaleLoop(h, i, len, f) ==
  IF i >= len THEN h
  ELSE LET e == h.s[i]
       IN RescaleLoop(HeapPush(h, [k |-> KeyMul(e.k, f), v |-> e.v]), i + 1, len, f)

\* math.Exp(-s.alpha * s.t0.Sub(t0).Seconds())
RescaleFactor(a, secs) == Norm(0 - ((a * secs) \div TimeUnit))

\* a rescale that applies the factor twice to every key
RescaleTwice(h, f) == RescaleLoop(HeapClear(h), 0, h.n, KeyMul(f, f))

\* values := s.values.Values(); s.values.Clear(); then the loop over values
Rescale(h, f) == RescaleLoop(HeapClear(h), 0, h.n, f)

\* the whole of update(t, v) after s.count++
ExpDecayUpdate(h, c, a, t0v, t1v, t, v, j) ==
  LET h1 == ExpDecayStore(h, c, a, t - t0v, v, j) IN
  IF t > t1v
    THEN [heap |-> Rescale(h1, RescaleFactor(a, t - t0v)),
          t0 |-> t, t1 |-> t + rescaleThreshold]
    ELSE [heap |-> h1, t0 |-> t0v, t1 |-> t1v]

(* ------------------------------ reads ---------------------------------- *)
\* the float64 values the live reservoir retains, in array order
Retained(k, m, sl, h) ==
  IF k = "uniform" THEN SliceSeq(m, sl)
  ELSE [i \in 1..h.n |-> h.s[i - 1].v]

LiveValues == Retained(kind, mem, uvalues, heap)

\* Size()
LiveSize == IF kind = "uniform" THEN uvalues.n ELSE HeapSize(heap)

(* ----------------------------- snapshots ------------------------------- *)
NoSnap == [count |-> 0 - 1, values |-> NilSlice, hist |-> FALSE]

\* a snapshot that keeps the live slice instead of a copy of it
TakeSnapshotShared(m, live, q, cnt, wrapped) ==
  [snap |-> [count |-> cnt, values |-> [a |-> live.a, n |-> Len(q)], hist |-> wrapped],
   mem  |-> Collect(m, {live})]

\* Snapshot(): a SampleFloat64Snapshot over a fresh copy of the retained
\* values; `hist` tells whether a HistogramSnapshotFloat64 wraps it
TakeSnapshot(m, live, q, cnt, wrapped) ==
  LET a  == Alloc({live})
      sl == [a |-> a, n |-> Len(q)]
  IN [snap |-> [count |-> cnt, values |-> sl, hist |-> wrapped],
      mem  |-> Collect([m EXCEPT ![a] = q], {live, sl})]

\* UniformSampleFloat64.Clear: a new empty array of capacity reservoirSize
UniformClear(m, c, sn) ==
  LET a  == Alloc({sn.values})
      sl == [a |-> a, n |-> 0]
  IN [values |-> sl, mem |-> Collect([m EXCEPT ![a] = MakeArray(c)], {sn.values, sl})]

SnapValues == SliceSeq(mem, snap.values)

(* ------------------- the live reservoir, one caller -------------------- *)
NoInstance == ""
NoCall == [op |-> "", arg |-> 0, val |-> 0]

\* the switch is off and stays off; the caller keeps no handle
NoLifecycle ==
  /\ UseNilMetrics = FALSE
  /\ hist = "none"
  /\ recv = NoInstance
  /\ last = NoCall

\* a single caller: no goroutine state
NoGoroutines ==
  /\ pc = <<>>
  /\ loc = <<>>
  /\ ret = <<>>
  /\ orig = <<>>
  /\ smutex = 0
  /\ hmutex = 0
  /\ NoLifecycle

\* NewUniformSampleFloat64 / NewExpDecaySampleFloat64 at time 0
InitSample ==
  /\ kind \in Kinds
  /\ reservoirSize \in Capacities
  /\ alpha \in Alphas
  /\ count = 0
  /\ uvalues = IF kind = "uniform" THEN [a |-> 1, n |-> 0] ELSE NilSlice
  /\ mem = [a \in Addr |-> IF kind = "uniform" /\ a = 1
                             THEN MakeArray(reservoirSize) ELSE <<>>]
  /\ heap = newExpDecaySampleFloat64Heap(IF kind = "expdecay" THEN reservoirSize ELSE 0)
  /\ now = 0
  /\ t0 = 0
  /\ t1 = rescaleThreshold

Init ==
  /\ InitSample
  /\ snap = NoSnap
  /\ panicked = ""
  /\ pushed = EmptyBag
  /\ caller = NilSlice
  /\ NoGoroutines

\* the clock moves on between two calls (only the decaying reservoir reads it)
Tick(d) ==
  /\ kind = "expdecay"
  /\ now + d <= MaxTime * TimeUnit
  /\ now' = now + d
  /\ UNCHANGED <<sampleVars, snap, panicked>>

\* StandardHistogramFloat64.Update -> UniformSampleFloat64.Update
UniformUpdate(v) ==
  /\ kind = "uniform"
  /\ count < MaxCount
  /\ \E r \in 0..count :        \* rand.Int63n(s.count), count already incremented
       LET st == UniformStore(mem, uvalues, reservoirSize, v, r) IN
       /\ count' = count + 1
       /\ mem' = st.mem
       /\ uvalues' = st.values
  /\ UNCHANGED <<kind, reservoirSize, alpha, heap, t0, t1, now, snap, panicked>>

\* StandardHistogramFloat64.Update -> ExpDecaySampleFloat64.Update
ExpDecayUpdateAt(v) ==
  /\ kind = "expdecay"
  /\ count < MaxCount
  /\ \E j \in Draws :           \* rand.Float64()
       LET st == ExpDecayUpdate(heap, reservoirSize, alpha, t0, t1, now, v, j) IN
       /\ count' = count + 1
       /\ heap' = DropDead(st.heap)
       /\ t0' = st.t0
       /\ t1' = st.t1
  /\ UNCHANGED <<kind, reservoirSize, alpha, uvalues, mem, now, snap, panicked>>

Update(v) == UniformUpdate(v) \/ ExpDecayUpdateAt(v)

\* a Clear that empties the reservoir and keeps s.count
ClearedSampleKeepsCount(m, sn) ==
  IF kind = "uniform"
    THEN LET st == UniformClear(m, reservoirSize, sn) IN
         [count |-> count, values |-> st.values, mem |-> st.mem,
          heap |-> heap, t0 |-> t0, t1 |-> t1]
    ELSE [count |-> count, values |-> uvalues, mem |-> m,
          heap |-> HeapClear(heap), t0 |-> now, t1 |-> now + rescaleThreshold]

\* the state of the reservoir after its Clear(), with snapshot sn kept alive
ClearedSample(m, sn) ==
  IF kind = "uniform"
    THEN LET st == UniformClear(m, reservoirSize, sn) IN
         [count |-> 0, values |-> st.values, mem |-> st.mem,
          heap |-> heap, t0 |-> t0, t1 |-> t1]
    ELSE [count |-> 0, values |-> uvalues, mem |-> m,
          heap |-> HeapClear(heap), t0 |-> now, t1 |-> now + rescaleThreshold]

\* Sample().Clear(): the reservoir's own Clear
SampleClear ==
  /\ LET st == ClearedSample(mem, snap) IN
       /\ count' = st.count
       /\ uvalues' = st.values
       /\ mem' = st.mem
       /\ heap' = DropDead(st.heap)
       /\ t0' = st.t0
       /\ t1' = st.t1
  /\ UNCHANGED <<kind, reservoirSize, alpha, now, snap, panicked>>

\* UniformSampleFloat64.Percentile: sorts s.values in place, under the lock
LivePercentile ==
  /\ kind = "uniform"
  /\ uvalues.n > 0
  /\ mem' = [mem EXCEPT ![uvalues.a] =
               SortSlice(SliceSeq(mem, uvalues)) \o SubSeq(@, uvalues.n + 1, Len(@))]
  /\ UNCHANGED <<kind, reservoirSize, alpha, count, uvalues, heap, t0, t1,
                 now, snap, panicked>>

\* the reservoir with the history of what was pushed
Next ==
  \/ \E d \in TimeSteps : Tick(d) /\ UNCHANGED <<pushed, auxVars>>
  \/ \E v \in Vals : UniformUpdate(v) /\ pushed' = pushed (+) SetToBag({v}) /\ UNCHANGED auxVars
  \/ \E v \in Vals : ExpDecayUpdateAt(v) /\ pushed' = pushed (+) SetToBag({v}) /\ UNCHANGED auxVars
  \/ SampleClear /\ pushed' = EmptyBag /\ UNCHANGED auxVars
  \/ LivePercentile /\ UNCHANGED <<pushed, auxVars>>

Spec == Init /\ [][Next]_vars

(* ---------------- the live histogram and its snapshots ----------------- *)
\* a Clear that empties the reservoir before it takes the snapshot
HistogramClearFirst(m, live, q, cnt) ==
  LET st == ClearedSample(m, NoSnap)
      sn == TakeSnapshot(st.mem, st.values,
                         Retained(kind, st.mem, st.values, st.heap), st.count, TRUE)
  IN [snap |-> sn.snap, count |-> st.count, values |-> st.values, mem |-> sn.mem,
      heap |-> st.heap, t0 |-> st.t0, t1 |-> st.t1]

\* StandardHistogramFloat64.Clear with no other caller: snapshot, then clear
HistogramClear(m, live, q, cnt) ==
  LET sn == TakeSnapshot(m, live, q, cnt, TRUE)
      st == ClearedSample(sn.mem, sn.snap)
  IN [snap |-> sn.snap, count |-> st.count, values |-> st.values, mem |-> st.mem,
      heap |-> st.heap, t0 |-> st.t0, t1 |-> st.t1]

HistClear ==
  /\ LET st == HistogramClear(mem, uvalues, LiveValues, count) IN
       /\ snap' = st.snap
       /\ count' = st.count
       /\ uvalues' = st.values
       /\ mem' = st.mem
       /\ heap' = DropDead(st.heap)
       /\ t0' = st.t0
       /\ t1' = st.t1
  /\ UNCHANGED <<kind, reservoirSize, alpha, now, panicked>>

\* StandardHistogramFloat64.Snapshot: wraps the reservoir's Snapshot()
Snapshot ==
  /\ LET st == TakeSnapshot(mem, uvalues, LiveValues, count, TRUE) IN
       /\ snap' = st.snap
       /\ mem' = st.mem
  /\ UNCHANGED <<kind, reservoirSize, alpha, count, uvalues, heap, t0, t1,
                 now, panicked>>

NextHist ==
  \/ \E d \in RescaleSteps : Tick(d) /\ UNCHANGED <<pushed, auxVars>>
  \/ \E v \in Vals : UniformUpdate(v) /\ UNCHANGED <<pushed, auxVars>>
  \/ \E v \in Vals : ExpDecayUpdateAt(v) /\ UNCHANGED <<pushed, auxVars>>
  \/ SampleClear /\ UNCHANGED <<pushed, auxVars>>
  \/ HistClear /\ UNCHANGED <<pushed, auxVars>>
  \/ Snapshot /\ UNCHANGED <<pushed, auxVars>>
  \/ LivePercentile /\ UNCHANGED <<pushed, auxVars>>

SpecHist == Init /\ [][NextHist]_vars

(* --------------------- a frozen instance by itself --------------------- *)
\* the values, in array order, that any short collection can hold
Collections == UNION {[1..n -> Vals] : n \in 0..MaxCap}

\* NewSampleFloat64Snapshot(count, values): keeps the slice it is given
NewSampleFloat64Snapshot(cnt, sl) == [count |-> cnt, values |-> sl, hist |-> FALSE]

\* a frozen instance whose Update returns without effect, as the Nil
\* variant's does, and whose Clear alone panics
FrozenUpdateAbsorbed(wrapped, method) ==
  IF method = "Update" THEN ""
  ELSE IF wrapped THEN method \o " called on a HistogramSnapshotFloat64"
                  ELSE method \o " called on a SampleFloat64Snapshot"

\* the panic that Update / Clear raise on a frozen instance
FrozenMisuse(wrapped, method) ==
  IF wrapped THEN method \o " called on a HistogramSnapshotFloat64"
             ELSE method \o " called on a SampleFloat64Snapshot"

\* Either the caller holds a slice it built, to hand to
\* NewSampleFloat64Snapshot, or a histogram has returned a
\* HistogramSnapshotFloat64 from Snapshot() or Clear().
InitSnap ==
  /\ kind = "none"
  /\ reservoirSize = 0
  /\ alpha = 0
  /\ count = 0
  /\ uvalues = NilSlice
  /\ heap = newExpDecaySampleFloat64Heap(0)
  /\ now = 0
  /\ t0 = 0
  /\ t1 = 0
  /\ pushed = EmptyBag
  /\ panicked = ""
  /\ NoGoroutines
  /\ \E q \in Collections :
       \/ /\ caller = [a |-> 1, n |-> Len(q)]
          /\ snap = NoSnap
          /\ mem = [a \in Addr |-> IF a = 1 THEN q ELSE <<>>]
       \/ /\ caller = NilSlice
          /\ \E c \in Len(q)..MaxCount :
               snap = [count |-> c, values |-> [a |-> 1, n |-> Len(q)], hist |-> TRUE]
          /\ mem = [a \in Addr |-> IF a = 1 THEN q ELSE <<>>]

liveVars == <<kind, reservoirSize, alpha, count, uvalues, heap, t0, t1, now, pushed>>
goVars == <<pc, loc, ret, orig, smutex, hmutex, lifeVars>>

\* s := NewSampleFloat64Snapshot(c, values) on the caller's slice
NewSnapshot(c) ==
  /\ snap = NoSnap
  /\ caller # NilSlice
  /\ snap' = NewSampleFloat64Snapshot(c, caller)
  /\ panicked' = ""
  /\ UNCHANGED <<liveVars, mem, caller, goVars>>

\* values := s.Values(): the caller gets a copy in a new array
SnapValuesCall ==
  /\ snap # NoSnap
  /\ LET a  == Alloc({snap.values})
         sl == [a |-> a, n |-> snap.values.n]
     IN /\ caller' = sl
        /\ mem' = Collect([mem EXCEPT ![a] = SnapValues], {snap.values, sl})
  /\ panicked' = ""
  /\ UNCHANGED <<liveVars, snap, goVars>>

\* values[i] = v by the caller, on the slice it holds
CallerWrite(i, v) ==
  /\ caller # NilSlice
  /\ i <= caller.n
  /\ mem' = [mem EXCEPT ![caller.a][i] = v]
  /\ panicked' = ""
  /\ UNCHANGED <<liveVars, snap, caller, goVars>>

\* s.Percentile(p) / s.Percentiles(ps): sort.Sort(s.values) in place
SnapPercentile ==
  /\ snap # NoSnap
  /\ snap.values.n > 0
  /\ mem' = [mem EXCEPT ![snap.values.a] = SortSlice(SnapValues)]
  /\ panicked' = ""
  /\ UNCHANGED <<liveVars, snap, caller, goVars>>

\* s.Update(v) on the frozen instance
SnapUpdate(v) ==
  /\ snap # NoSnap
  /\ panicked' = FrozenMisuse(snap.hist, "Update")
  /\ UNCHANGED <<liveVars, snap, mem, caller, goVars>>

\* s.Clear() on the frozen instance
SnapClear ==
  /\ snap # NoSnap
  /\ panicked' = FrozenMisuse(snap.hist, "Clear")
  /\ UNCHANGED <<liveVars, snap, mem, caller, goVars>>

NextSnap ==
  \/ \E c \in 0..MaxCount : NewSnapshot(c)
  \/ SnapValuesCall
  \/ \E i \in 1..MaxCap, v \in Vals : CallerWrite(i, v)
  \/ SnapPercentile
  \/ \E v \in Vals : SnapUpdate(v)
  \/ SnapClear

SpecSnap == InitSnap /\ [][NextSnap]_vars

(* ------------- goroutines reading one snapshot, no lock ---------------- *)
NReaders == 2
Readers == 1..NReaders
ReadOps == {"Percentile", "Max", "Values"}

\* SampleFloat64Max
SampleFloat64Max(q) ==
  IF Len(q) = 0 THEN 0 ELSE CHOOSE x \in Range(q) : \A y \in Range(q) : y <= x

\* the snapshot arrays the readers share: up to MaxCap + 1 values
InitRace ==
  /\ kind = "none"
  /\ reservoirSize = 0
  /\ alpha = 0
  /\ count = 0
  /\ uvalues = NilSlice
  /\ heap = newExpDecaySampleFloat64Heap(0)
  /\ now = 0
  /\ t0 = 0
  /\ t1 = 0
  /\ pushed = EmptyBag
  /\ panicked = ""
  /\ caller = NilSlice
  /\ \E q \in UNION {[1..n -> Vals] : n \in 0..(MaxCap + 1)} :
       /\ snap = [count |-> Len(q), values |-> [a |-> 1, n |-> Len(q)], hist |-> FALSE]
       /\ mem = [a \in Addr |-> IF a = 1 THEN q ELSE <<>>]
       /\ orig = q
  /\ pc = [t \in Readers |-> "idle"]
  /\ loc = [t \in Readers |-> [op |-> "", pn |-> 0, i |-> 0, j |-> 0, x |-> 0, y |-> 0]]
  /\ ret = [t \in Readers |-> <<>>]
  /\ smutex = 0
  /\ hmutex = 0
  /\ NoLifecycle

raceFrame == <<liveVars, panicked, caller, snap, orig, smutex, hmutex, lifeVars>>

\* a goroutine calls Percentile(pn/PDen), Max() or Values() on the snapshot;
\* Max and Values read the array at once, Percentile goes on to sort it
ReadCall(t, op, pn) ==
  /\ pc[t] = "idle"
  /\ loc' = [loc EXCEPT ![t] = [op |-> op, pn |-> pn, i |-> 2, j |-> 2, x |-> 0, y |-> 0]]
  /\ IF op = "Max"
       THEN pc' = [pc EXCEPT ![t] = "done"] /\ ret' = [ret EXCEPT ![t] = <<SampleFloat64Max(SnapValues)>>]
       ELSE IF op = "Values"
         THEN pc' = [pc EXCEPT ![t] = "done"] /\ ret' = [ret EXCEPT ![t] = SnapValues]
         ELSE pc' = [pc EXCEPT ![t] = IF snap.values.n > 0 THEN "less" ELSE "score"] /\ ret' = ret
  /\ UNCHANGED <<raceFrame, mem>>

\* insertion sort: for j := i; j > a && data.Less(j, j-1); j-- { data.Swap(j, j-1) }
SortLess(t) ==
  /\ pc[t] = "less"
  /\ LET i == loc[t].i
         j == loc[t].j
         arr == mem[snap.values.a]
     IN IF i > snap.values.n
          THEN pc' = [pc EXCEPT ![t] = "score"] /\ loc' = loc
          ELSE IF j > 1 /\ arr[j] < arr[j - 1]
            THEN pc' = [pc EXCEPT ![t] = "swap"] /\ loc' = loc
            ELSE pc' = pc /\ loc' = [loc EXCEPT ![t].i = i + 1, ![t].j = i + 1]
  /\ UNCHANGED <<raceFrame, mem, ret>>

\* p[i], p[j] = p[j], p[i]: both elements are read ...
SwapRead(t) ==
  /\ pc[t] = "swap"
  /\ LET arr == mem[snap.values.a] IN
       loc' = [loc EXCEPT ![t].x = arr[loc[t].j - 1], ![t].y = arr[loc[t].j]]
  /\ pc' = [pc EXCEPT ![t] = "write1"]
  /\ UNCHANGED <<raceFrame, mem, ret>>

\* ... then p[j] is written ...
SwapWrite1(t) ==
  /\ pc[t] = "write1"
  /\ mem' = [mem EXCEPT ![snap.values.a][loc[t].j] = loc[t].x]
  /\ pc' = [pc EXCEPT ![t] = "write2"]
  /\ UNCHANGED <<raceFrame, loc, ret>>

\* ... and then p[j-1]
SwapWrite2(t) ==
  /\ pc[t] = "write2"
  /\ mem' = [mem EXCEPT ![snap.values.a][loc[t].j - 1] = loc[t].y]
  /\ pc' = [pc EXCEPT ![t] = "less"]
  /\ loc' = [loc EXCEPT ![t].j = loc[t].j - 1]
  /\ UNCHANGED <<raceFrame, ret>>

\* the score is read off the array the goroutine has sorted
ReadScore(t) ==
  /\ pc[t] = "score"
  /\ ret' = [ret EXCEPT ![t] = <<Score(SnapValues, loc[t].pn)>>]
  /\ pc' = [pc EXCEPT ![t] = "done"]
  /\ UNCHANGED <<raceFrame, mem, loc>>

NextRace ==
  \/ \E t \in Readers, op \in ReadOps, pn \in Percents :
       (op # "Percentile" => pn = 0) /\ ReadCall(t, op, pn)
  \/ \E t \in Readers : SortLess(t)
  \/ \E t \in Readers : SwapRead(t)
  \/ \E t \in Readers : SwapWrite1(t)
  \/ \E t \in Readers : SwapWrite2(t)
  \/ \E t \in Readers : ReadScore(t)

SpecRace == InitRace /\ [][NextRace]_vars

\* what the call of goroutine t returns when nothing runs beside it
Alone(t) ==
  IF loc[t].op = "Max" THEN <<SampleFloat64Max(orig)>>
  ELSE IF loc[t].op = "Values" THEN SortSlice(orig)
  ELSE <<SampleFloat64Percentile(orig, loc[t].pn)>>

(* -------- goroutines on one live histogram and its reservoir ----------- *)
NWorkers == 3
Workers == 1..NWorkers
NoResult == [count |-> 0 - 1, values |-> <<>>]

\* a mutex that never makes anyone wait
MutexFreeAlways(mu) == TRUE

\* mutex.Lock() returns only when no goroutine holds the mutex
MutexFree(mu) == mu = 0

InitConc ==
  /\ InitSample
  /\ snap = NoSnap
  /\ panicked = ""
  /\ pushed = EmptyBag
  /\ caller = NilSlice
  /\ orig = <<>>
  /\ smutex = 0
  /\ hmutex = 0
  /\ pc = [t \in Workers |-> "idle"]
  /\ loc = [t \in Workers |-> [op |-> "", snap |-> NoResult]]
  /\ ret = [t \in Workers |-> NoResult]
  /\ NoLifecycle

concFrame == <<kind, reservoirSize, alpha, now, snap, panicked, pushed, caller, orig, lifeVars>>
reservoirState == <<count, uvalues, mem, heap, t0, t1>>

\* a goroutine calls h.Update(t), h.Sample().Snapshot(), h.Clear() or
\* h.Sample().Clear(); the model runs one h.Clear()
Call(t, op) ==
  /\ pc[t] = "idle"
  /\ op = "Clear" => \A u \in DOMAIN loc : loc[u].op # "Clear"
  /\ loc' = [loc EXCEPT ![t].op = op]
  /\ pc' = [pc EXCEPT ![t] = CASE op = "Update" -> "u_lock"
                               [] op = "Snapshot" -> "s_lock"
                               [] op = "Clear" -> "c_hlock"
                               [] op = "SampleClear" -> "c_clock"]
  /\ UNCHANGED <<concFrame, reservoirState, ret, smutex, hmutex>>

\* s.mutex.Lock() at the head of Update, Snapshot and Clear of the reservoir
LockSample(t) ==
  /\ pc[t] \in {"u_lock", "s_lock", "c_slock", "c_clock"}
  /\ kind # "nil"               \* NilSampleFloat64 has no mutex
  /\ MutexFree(smutex)
  /\ smutex' = t
  /\ pc' = [pc EXCEPT ![t] = CASE pc[t] = "u_lock" -> "u_inc"
                               [] pc[t] = "s_lock" -> "s_read"
                               [] pc[t] = "c_slock" -> "c_read"
                               [] pc[t] = "c_clock" -> "c_zero"]
  /\ UNCHANGED <<concFrame, reservoirState, loc, ret, hmutex>>

\* the deferred s.mutex.Unlock() when the reservoir's method returns
UnlockSample(t) ==
  /\ pc[t] \in {"u_unlock", "s_unlock", "c_sunlock", "c_cunlock"}
  /\ smutex' = 0
  /\ pc' = [pc EXCEPT ![t] = CASE pc[t] = "u_unlock" -> "done"
                               [] pc[t] = "s_unlock" -> "done"
                               [] pc[t] = "c_sunlock" -> "c_clock"
                               [] pc[t] = "c_cunlock" ->
                                    IF loc[t].op = "Clear" THEN "c_hunlock" ELSE "done"]
  /\ UNCHANGED <<concFrame, reservoirState, loc, ret, hmutex>>

\* s.count++
UpdateCount(t) ==
  /\ pc[t] = "u_inc"
  /\ count' = count + 1
  /\ pc' = [pc EXCEPT ![t] = "u_store"]
  /\ UNCHANGED <<concFrame, uvalues, mem, heap, t0, t1, loc, ret, smutex, hmutex>>

\* the rest of Update: the value t goes into the array or the heap
UpdateStore(t) ==
  /\ pc[t] = "u_store"
  /\ \/ /\ kind = "uniform"
        /\ \E r \in 0..(count - 1) :
             LET st == UniformStore(mem, uvalues, reservoirSize, t, r) IN
             /\ mem' = st.mem
             /\ uvalues' = st.values
        /\ UNCHANGED <<heap, t0, t1>>
     \/ /\ kind = "expdecay"
        /\ ~PopPanics(heap, reservoirSize)
        /\ \E j \in Draws :
             LET st == ExpDecayUpdate(heap, reservoirSize, alpha, t0, t1, now, t, j) IN
             /\ heap' = DropDead(st.heap)
             /\ t0' = st.t0
             /\ t1' = st.t1
        /\ UNCHANGED <<uvalues, mem>>
  /\ pc' = [pc EXCEPT ![t] = "u_unlock"]
  /\ UNCHANGED <<concFrame, count, loc, ret, smutex, hmutex>>

\* the body of the reservoir's Snapshot(): count and a copy of the values
SnapshotRead(t) ==
  /\ pc[t] \in {"s_read", "c_read"}
  /\ LET sn == [count |-> count, values |-> LiveValues] IN
       IF pc[t] = "s_read"
         THEN ret' = [ret EXCEPT ![t] = sn] /\ loc' = loc
         ELSE loc' = [loc EXCEPT ![t].snap = sn] /\ ret' = ret
  /\ pc' = [pc EXCEPT ![t] = IF pc[t] = "s_read" THEN "s_unlock" ELSE "c_sunlock"]
  /\ UNCHANGED <<concFrame, reservoirState, smutex, hmutex>>

\* h.mutex.Lock() at the head of StandardHistogramFloat64.Clear
LockHistogram(t) ==
  /\ pc[t] = "c_hlock"
  /\ MutexFree(hmutex)
  /\ hmutex' = t
  /\ pc' = [pc EXCEPT ![t] = "c_slock"]
  /\ UNCHANGED <<concFrame, reservoirState, loc, ret, smutex>>

\* the reservoir's Clear(): s.count = 0 (and the clock window) ...
ClearCount(t) ==
  /\ pc[t] = "c_zero"
  /\ count' = 0
  /\ IF kind = "expdecay"
       THEN t0' = now /\ t1' = now + rescaleThreshold
       ELSE UNCHANGED <<t0, t1>>
  /\ pc' = [pc EXCEPT ![t] = "c_reset"]
  /\ UNCHANGED <<concFrame, uvalues, mem, heap, loc, ret, smutex, hmutex>>

\* ... then the values
ClearValues(t) ==
  /\ pc[t] = "c_reset"
  /\ LET st == ClearedSample(mem, NoSnap) IN
       /\ uvalues' = st.values
       /\ mem' = st.mem
       /\ heap' = DropDead(st.heap)
  /\ pc' = [pc EXCEPT ![t] = "c_cunlock"]
  /\ UNCHANGED <<concFrame, count, t0, t1, loc, ret, smutex, hmutex>>

\* the deferred h.mutex.Unlock(); Clear returns hSnap
UnlockHistogram(t) ==
  /\ pc[t] = "c_hunlock"
  /\ hmutex' = 0
  /\ ret' = [ret EXCEPT ![t] = loc[t].snap]
  /\ pc' = [pc EXCEPT ![t] = "done"]
  /\ UNCHANGED <<concFrame, reservoirState, loc, smutex>>

NextConc ==
  \/ \E t \in Workers, op \in {"Update", "Snapshot", "Clear"} : Call(t, op)
  \/ \E t \in Workers : LockSample(t)
  \/ \E t \in Workers : UnlockSample(t)
  \/ \E t \in Workers : UpdateCount(t)
  \/ \E t \in Workers : UpdateStore(t)
  \/ \E t \in Workers : SnapshotRead(t)
  \/ \E t \in Workers : LockHistogram(t)
  \/ \E t \in Workers : ClearCount(t)
  \/ \E t \in Workers : ClearValues(t)
  \/ \E t \in Workers : UnlockHistogram(t)

SpecConc == InitConc /\ [][NextConc]_vars

(* ------------- the statistics of one collection of values -------------- *)
\* eight values with mean 5 and variance 4
ReferenceCase == <<2, 4, 4, 4, 5, 5, 7, 9>>
StatInputs == UNION {[1..n -> Vals] : n \in 0..(MaxCap + 1)} \cup {ReferenceCase}
\* the lists ps handed to Percentiles
PercentLists == UNION {[1..n -> Percents] : n \in 0..2}
StatOps == {"Min", "Max", "Mean", "Sum", "StdDev", "Variance", "Size"}

\* a SampleFloat64Snapshot over the collection, and nothing else
InitStat ==
  /\ kind = "none"
  /\ reservoirSize = 0
  /\ alpha = 0
  /\ count = 0
  /\ uvalues = NilSlice
  /\ heap = newExpDecaySampleFloat64Heap(0)
  /\ now = 0
  /\ t0 = 0
  /\ t1 = 0
  /\ pushed = EmptyBag
  /\ panicked = ""
  /\ caller = NilSlice
  /\ pc = <<>>
  /\ loc = <<>>
  /\ ret = <<>>
  /\ smutex = 0
  /\ hmutex = 0
  /\ NoLifecycle
  /\ \E q \in StatInputs :
       /\ snap = NewSampleFloat64Snapshot(Len(q), [a |-> 1, n |-> Len(q)])
       /\ mem = [a \in Addr |-> IF a = 1 THEN q ELSE <<>>]
       /\ orig = q

statFrame == <<liveVars, panicked, caller, snap, pc, loc, ret, orig, smutex, hmutex,
               UseNilMetrics, hist, recv>>

\* what SampleFloat64Min, ...Max, ...Mean, ...Sum, ...StdDev, ...Variance and
\* len return on the values q
Statistic(op, q) ==
  CASE op = "Min" -> SampleFloat64Min(q)
    [] op = "Max" -> SampleFloat64Max(q)
    [] op = "Mean" -> SampleFloat64Mean(q)
    [] op = "Sum" -> SampleFloat64Sum(q)
    [] op = "StdDev" -> SampleFloat64StdDev(q)
    [] op = "Variance" -> SampleFloat64Variance(q)
    [] op = "Size" -> Len(q)

\* s.Min(), s.Max(), s.Mean(), s.Sum(), s.StdDev(), s.Variance(), s.Size()
StatRead(op) ==
  /\ last' = [op |-> op, arg |-> 0, val |-> Statistic(op, SnapValues)]
  /\ UNCHANGED <<statFrame, mem>>

\* s.Percentile(pn / PDen): sorts s.values, then interpolates
StatPercentile(pn) ==
  /\ last' = [op |-> "Percentile", arg |-> pn,
              val |-> SampleFloat64Percentile(SnapValues, pn)]
  /\ mem' = [mem EXCEPT ![1] = SortSlice(SnapValues)]
  /\ UNCHANGED statFrame

\* s.Percentiles(ps)
StatPercentiles(ps) ==
  /\ last' = [op |-> "Percentiles", arg |-> ps,
              val |-> SampleFloat64Percentiles(SnapValues, ps)]
  /\ mem' = [mem EXCEPT ![1] = SortSlice(SnapValues)]
  /\ UNCHANGED statFrame

NextStat ==
  \/ \E op \in StatOps : StatRead(op)
  \/ \E pn \in AnyPercents : StatPercentile(pn)
  \/ \E ps \in PercentLists : StatPercentiles(ps)

SpecStat == InitStat /\ [][NextStat]_vars

(* ------- Live, Snapshot and Null instances in one caller's hands ------- *)
\* An instance is named by its Go type: there is one reservoir, one histogram
\* over it, and the frozen instance most recently created.
LiveTypes == {"*UniformSampleFloat64", "*ExpDecaySampleFloat64", "*StandardHistogramFloat64"}
SnapshotTypes == {"*SampleFloat64Snapshot", "*HistogramSnapshotFloat64"}
NullTypes == {"NilSampleFloat64", "NilHistogramFloat64"}
HistogramTypes == {"*StandardHistogramFloat64", "*HistogramSnapshotFloat64", "NilHistogramFloat64"}

Variant(ty) ==
  CASE ty \in LiveTypes -> "Live"
    [] ty \in SnapshotTypes -> "Snapshot"
    [] ty \in NullTypes -> "Null"
    [] OTHER -> ""

\* the type the reservoir constructors returned
TypeOfKind(k) ==
  CASE k = "uniform" -> "*UniformSampleFloat64"
    [] k = "expdecay" -> "*ExpDecaySampleFloat64"
    [] k = "nil" -> "NilSampleFloat64"
    [] OTHER -> ""

\* the type NewHistogramFloat64 returned
TypeOfHist(h) ==
  CASE h = "standard" -> "*StandardHistogramFloat64"
    [] h = "nil" -> "NilHistogramFloat64"
    [] OTHER -> ""

\* a method call that asks the switch, not the receiver, which variant runs
DispatchBySwitch(ty, sw) ==
  IF ~sw THEN ty
  ELSE IF ty \in HistogramTypes THEN "NilHistogramFloat64" ELSE "NilSampleFloat64"

\* a method call runs the method of the receiver's dynamic type
Dispatch(ty, sw) == ty

\* a histogram snapshot that hands out the live reservoir
SampleOfLive(ty) ==
  CASE ty \in {"*StandardHistogramFloat64", "*HistogramSnapshotFloat64"} -> TypeOfKind(kind)
    [] ty = "NilHistogramFloat64" -> "NilSampleFloat64"
    [] OTHER -> ty

\* h.sample of a histogram (Sample()); a reservoir is its own sample
SampleOf(ty) ==
  CASE ty = "*StandardHistogramFloat64" -> TypeOfKind(kind)
    [] ty = "*HistogramSnapshotFloat64" -> "*SampleFloat64Snapshot"
    [] ty = "NilHistogramFloat64" -> "NilSampleFloat64"
    [] OTHER -> ty

\* the values and the count a reservoir, snapshot or Null holds
ValuesOf(sty) ==
  CASE Variant(sty) = "Live" -> LiveValues
    [] Variant(sty) = "Snapshot" -> SnapValues
    [] OTHER -> <<>>

CountOf(sty) ==
  CASE Variant(sty) = "Live" -> count
    [] Variant(sty) = "Snapshot" -> snap.count
    [] OTHER -> 0

LifeReads == StatOps \cup {"Count", "Values"}
LifePercentLists == {ps \in PercentLists : \A i \in 1..Len(ps) : ps[i] \in {0, PDen}}

\* a Null whose Percentiles returns an empty list whatever ps is
NilStatisticNoScores(op, arg) ==
  CASE op \in {"Mean", "StdDev", "Variance"} -> RatZero
    [] op \in {"Values", "Percentiles"} -> <<>>
    [] OTHER -> 0

\* what the methods of NilSampleFloat64 and NilHistogramFloat64 return
NilStatistic(op, arg) ==
  CASE op \in {"Mean", "StdDev", "Variance"} -> RatZero
    [] op = "Values" -> <<>>
    [] op = "Percentiles" -> [i \in 1..Len(arg) |-> 0]
    [] OTHER -> 0

\* What each read method returns on a receiver whose sample has type sty:
\* one field for each method, Percentile for each p, Percentiles for each ps.
ReadResult(sty) ==
  IF sty = "NilSampleFloat64"
    THEN [stat |-> [op \in LifeReads |-> NilStatistic(op, 0)],
          percentile |-> [pn \in Percents |-> NilStatistic("Percentile", pn)],
          percentiles |-> [ps \in LifePercentLists |-> NilStatistic("Percentiles", ps)]]
    ELSE LET q == ValuesOf(sty) IN
         [stat |-> [op \in LifeReads |->
                      CASE op = "Count" -> CountOf(sty)
                        [] op = "Values" -> q
                        [] OTHER -> Statistic(op, q)],
          percentile |-> [pn \in Percents |-> SampleFloat64Percentile(q, pn)],
          percentiles |-> [ps \in LifePercentLists |-> SampleFloat64Percentiles(q, ps)]]

\* the random draws of the decaying reservoir that the lifecycle runs with
LifeDraws == {1}
\* the values it pushes
LifeVals == {1, MaxVal}

\* what a call returned
Result(op, arg, val) == [op |-> op, arg |-> arg, val |-> val]

\* the instances the caller can make its next call on
Handles ==
  (IF kind = "none" THEN {} ELSE {TypeOfKind(kind)})
  \cup (IF hist = "none" THEN {} ELSE {TypeOfHist(hist)})
  \cup (IF snap = NoSnap THEN {} ELSE {"*SampleFloat64Snapshot"})
  \cup (IF snap # NoSnap /\ snap.hist THEN {"*HistogramSnapshotFloat64"} ELSE {})
  \cup (IF hist = "nil" THEN {"NilSampleFloat64"} ELSE {})

InitLife ==
  /\ kind = "none"
  /\ reservoirSize = 0
  /\ alpha = 0
  /\ count = 0
  /\ uvalues = NilSlice
  /\ mem = [a \in Addr |-> <<>>]
  /\ heap = newExpDecaySampleFloat64Heap(0)
  /\ now = 0
  /\ t0 = 0
  /\ t1 = 0
  /\ snap = NoSnap
  /\ panicked = ""
  /\ pushed = EmptyBag
  /\ caller = NilSlice
  /\ pc = <<>>
  /\ loc = <<>>
  /\ ret = <<>>
  /\ orig = <<>>
  /\ smutex = 0
  /\ hmutex = 0
  /\ UseNilMetrics \in BOOLEAN
  /\ hist = "none"
  /\ recv = NoInstance
  /\ last = NoCall

lifeFrame == <<now, pushed, caller, pc, loc, ret, orig, smutex, hmutex>>
reservoirFields == <<kind, reservoirSize, alpha, count, uvalues, mem, heap, t0, t1>>

\* UseNilMetrics = b, by any code of the program
SetUseNilMetrics ==
  /\ UseNilMetrics' = ~UseNilMetrics
  /\ last' = NoCall
  /\ panicked' = ""
  /\ UNCHANGED <<lifeFrame, reservoirFields, snap, hist, recv>>

\* NewUniformSampleFloat64(c) / NewExpDecaySampleFloat64(c, a)
NewSample(k, c, a) ==
  /\ kind = "none"
  /\ IF UseNilMetrics
       THEN /\ kind' = "nil"
            /\ UNCHANGED <<reservoirSize, alpha, uvalues, mem, heap, t1>>
       ELSE /\ kind' = k
            /\ reservoirSize' = c
            /\ alpha' = IF k = "expdecay" THEN a ELSE 0
            /\ uvalues' = IF k = "uniform" THEN [a |-> 1, n |-> 0] ELSE NilSlice
            /\ mem' = [x \in Addr |-> IF k = "uniform" /\ x = 1 THEN MakeArray(c) ELSE <<>>]
            /\ heap' = newExpDecaySampleFloat64Heap(IF k = "expdecay" THEN c ELSE 0)
            /\ t1' = IF k = "expdecay" THEN now + rescaleThreshold ELSE 0
  /\ recv' = TypeOfKind(kind')
  /\ last' = Result("New", 0, TypeOfKind(kind'))
  /\ panicked' = ""
  /\ UNCHANGED <<lifeFrame, count, t0, snap, hist, UseNilMetrics>>

\* NewHistogramFloat64(s) over the reservoir constructed before
NewHistogramFloat64 ==
  /\ kind # "none"
  /\ hist = "none"
  /\ hist' = IF UseNilMetrics THEN "nil" ELSE "standard"
  /\ recv' = TypeOfHist(hist')
  /\ last' = Result("New", 0, TypeOfHist(hist'))
  /\ panicked' = ""
  /\ UNCHANGED <<lifeFrame, reservoirFields, snap, UseNilMetrics>>

\* the caller turns to another instance it holds
Hold(x) ==
  /\ x \in Handles
  /\ x # recv
  /\ recv' = x
  /\ last' = NoCall
  /\ panicked' = ""
  /\ UNCHANGED <<lifeFrame, reservoirFields, snap, hist, UseNilMetrics>>

\* the panic of h.sample.Snapshot().(*SampleFloat64Snapshot) on another type
AssertionPanic ==
  "interface conversion: SampleFloat64 is NilSampleFloat64, not *SampleFloat64Snapshot"


\* recv.Update(v)
CallUpdate(v) ==
  /\ recv # NoInstance
  /\ LET ty  == Dispatch(recv, UseNilMetrics)
         sty == SampleOf(ty)
     IN CASE Variant(ty) = "Snapshot" ->
               /\ panicked' = FrozenMisuse(ty = "*HistogramSnapshotFloat64", "Update")
               /\ UNCHANGED reservoirFields
          [] sty = "*UniformSampleFloat64" ->
               /\ count < MaxCount
               /\ \E r \in 0..count :
                    LET st == UniformStore(mem, uvalues, reservoirSize, v, r) IN
                    /\ count' = count + 1
                    /\ mem' = st.mem
                    /\ uvalues' = st.values
               /\ panicked' = ""
               /\ UNCHANGED <<kind, reservoirSize, alpha, heap, t0, t1>>
          [] sty = "*ExpDecaySampleFloat64" ->
               /\ count < MaxCount
               /\ \E j \in LifeDraws :
                    LET st == ExpDecayUpdate(heap, reservoirSize, alpha, t0, t1, now, v, j) IN
                    /\ count' = count + 1
                    /\ heap' = DropDead(st.heap)
                    /\ t0' = st.t0
                    /\ t1' = st.t1
               /\ panicked' = ""
               /\ UNCHANGED <<kind, reservoirSize, alpha, uvalues, mem>>
          [] OTHER ->
               /\ panicked' = ""
               /\ UNCHANGED reservoirFields
  /\ last' = Result("Update", 0, 0)
  /\ UNCHANGED <<lifeFrame, snap, hist, recv, UseNilMetrics>>

\* recv.Snapshot()
CallSnapshot ==
  /\ recv # NoInstance
  /\ LET ty == Dispatch(recv, UseNilMetrics) IN
     CASE ty = "*StandardHistogramFloat64" /\ kind = "nil" ->
            /\ panicked' = AssertionPanic
            /\ last' = Result("Snapshot", 0, "")
            /\ UNCHANGED <<snap, mem>>
       [] Variant(ty) = "Live" /\ ~(ty = "*StandardHistogramFloat64" /\ kind = "nil") ->
            LET wrapped == ty = "*StandardHistogramFloat64"
                st == TakeSnapshot(mem, uvalues, LiveValues, count, wrapped)
            IN /\ snap' = st.snap
               /\ mem' = st.mem
               /\ panicked' = ""
               /\ last' = Result("Snapshot", 0, IF wrapped THEN "*HistogramSnapshotFloat64"
                                                           ELSE "*SampleFloat64Snapshot")
       [] OTHER ->
            /\ panicked' = ""
            /\ last' = Result("Snapshot", 0, ty)
            /\ UNCHANGED <<snap, mem>>
  /\ UNCHANGED <<lifeFrame, kind, reservoirSize, alpha, count, uvalues, heap, t0, t1,
                 hist, recv, UseNilMetrics>>

\* recv.Clear()
CallClear ==
  /\ recv # NoInstance
  /\ LET ty == Dispatch(recv, UseNilMetrics) IN
     CASE Variant(ty) = "Snapshot" ->
            /\ panicked' = FrozenMisuse(ty = "*HistogramSnapshotFloat64", "Clear")
            /\ last' = Result("Clear", 0, "")
            /\ UNCHANGED <<snap, count, uvalues, mem, heap, t0, t1>>
       [] ty = "*StandardHistogramFloat64" /\ kind = "nil" ->
            /\ panicked' = AssertionPanic
            /\ last' = Result("Clear", 0, "")
            /\ UNCHANGED <<snap, count, uvalues, mem, heap, t0, t1>>
       [] ty = "*StandardHistogramFloat64" /\ kind # "nil" ->
            LET st == HistogramClear(mem, uvalues, LiveValues, count) IN
            /\ snap' = st.snap
            /\ count' = st.count
            /\ uvalues' = st.values
            /\ mem' = st.mem
            /\ heap' = DropDead(st.heap)
            /\ t0' = st.t0
            /\ t1' = st.t1
            /\ panicked' = ""
            /\ last' = Result("Clear", 0, "*HistogramSnapshotFloat64")
       [] ty \in {"*UniformSampleFloat64", "*ExpDecaySampleFloat64"} ->
            LET st == ClearedSample(mem, snap) IN
            /\ count' = st.count
            /\ uvalues' = st.values
            /\ mem' = st.mem
            /\ heap' = DropDead(st.heap)
            /\ t0' = st.t0
            /\ t1' = st.t1
            /\ panicked' = ""
            /\ last' = Result("Clear", 0, "")
            /\ UNCHANGED snap
       [] OTHER ->
            /\ panicked' = ""
            /\ last' = Result("Clear", 0, IF ty = "NilHistogramFloat64" THEN ty ELSE "")
            /\ UNCHANGED <<snap, count, uvalues, mem, heap, t0, t1>>
  /\ UNCHANGED <<lifeFrame, kind, reservoirSize, alpha, hist, recv, UseNilMetrics>>

\* recv.Sample(), on a histogram
CallSample ==
  /\ recv \in HistogramTypes
  /\ last' = Result("Sample", 0, SampleOf(Dispatch(recv, UseNilMetrics)))
  /\ panicked' = ""
  /\ UNCHANGED <<lifeFrame, reservoirFields, snap, hist, recv, UseNilMetrics>>

\* The caller makes every read call on recv, one after the other: Count(),
\* Size(), Values(), Min(), Max(), Mean(), Sum(), StdDev(), Variance(),
\* Percentile(p) and Percentiles(ps). The Percentile(s) calls sort the array of
\* a uniform reservoir or of a snapshot in place, under the lock.
CallReads ==
  /\ recv # NoInstance
  /\ LET sty == SampleOf(Dispatch(recv, UseNilMetrics)) IN
       /\ last' = Result("Reads", 0, ReadResult(sty))
       /\ mem' = CASE sty = "*UniformSampleFloat64" /\ uvalues.n > 0 ->
                        [mem EXCEPT ![uvalues.a] =
                           SortSlice(SliceSeq(mem, uvalues))
                             \o SubSeq(@, uvalues.n + 1, Len(@))]
                   [] sty = "*SampleFloat64Snapshot" /\ snap.values.n > 0 ->
                        [mem EXCEPT ![snap.values.a] = SortSlice(SnapValues)]
                   [] OTHER -> mem
  /\ panicked' = ""
  /\ UNCHANGED <<lifeFrame, kind, reservoirSize, alpha, count, uvalues, heap, t0, t1,
                 snap, hist, recv, UseNilMetrics>>

NextLife ==
  \/ SetUseNilMetrics
  \/ \E k \in Kinds, c \in Capacities, a \in Alphas : NewSample(k, c, a)
  \/ NewHistogramFloat64
  \/ \E x \in LiveTypes \cup SnapshotTypes \cup NullTypes : Hold(x)
  \/ \E v \in LifeVals : CallUpdate(v)
  \/ CallSnapshot
  \/ CallClear
  \/ CallSample
  \/ CallReads

SpecLife == InitLife /\ [][NextLife]_vars

(* ------- goroutines, the two mutexes and the calls that panic ---------- *)
\* the reservoir is uniform, decaying or Null
\* two goroutines, and the capacities 0 and 1
LockWorkers == {1, 2}
LockCapacities == {0, 1}

InitLock ==
  /\ kind \in Kinds \cup {"nil"}
  /\ reservoirSize \in (IF kind = "nil" THEN {0} ELSE LockCapacities)
  /\ alpha = (IF kind = "expdecay" THEN 1 ELSE 0)
  /\ count = 0
  /\ uvalues = IF kind = "uniform" THEN [a |-> 1, n |-> 0] ELSE NilSlice
  /\ mem = [a \in Addr |-> IF kind = "uniform" /\ a = 1
                             THEN MakeArray(reservoirSize) ELSE <<>>]
  /\ heap = newExpDecaySampleFloat64Heap(IF kind = "expdecay" THEN reservoirSize ELSE 0)
  /\ now = 0
  /\ t0 = 0
  /\ t1 = IF kind = "expdecay" THEN rescaleThreshold ELSE 0
  /\ snap = NoSnap
  /\ panicked = ""
  /\ pushed = EmptyBag
  /\ caller = NilSlice
  /\ orig = <<>>
  /\ smutex = 0
  /\ hmutex = 0
  /\ pc = [t \in LockWorkers |-> "idle"]
  /\ loc = [t \in LockWorkers |-> [op |-> "", snap |-> NoResult]]
  /\ ret = [t \in LockWorkers |-> NoResult]
  /\ NoLifecycle

lockFrame == <<kind, reservoirSize, alpha, now, snap, pushed, caller, orig, lifeVars>>

\* an Update that panics under the lock and returns without the deferred Unlock
UpdatePanicHoldingLock(t) ==
  /\ pc[t] = "u_store"
  /\ kind = "expdecay"
  /\ PopPanics(heap, reservoirSize)
  /\ panicked' = "index out of range"
  /\ pc' = [pc EXCEPT ![t] = "done"]
  /\ UNCHANGED <<lockFrame, reservoirState, loc, ret, smutex, hmutex>>

\* update on a decaying reservoir of capacity 0: Pop panics on the empty heap;
\* the deferred s.mutex.Unlock() is still to run
UpdatePanic(t) ==
  /\ pc[t] = "u_store"
  /\ kind = "expdecay"
  /\ PopPanics(heap, reservoirSize)
  /\ panicked' = "index out of range"
  /\ pc' = [pc EXCEPT ![t] = "u_unlock"]
  /\ UNCHANGED <<lockFrame, reservoirState, loc, ret, smutex, hmutex>>

\* h.Clear() over a Null reservoir: the type assertion panics under h.mutex;
\* the deferred h.mutex.Unlock() is still to run
ClearPanic(t) ==
  /\ pc[t] = "c_slock"
  /\ kind = "nil"
  /\ panicked' = AssertionPanic
  /\ pc' = [pc EXCEPT ![t] = "c_hunlock"]
  /\ UNCHANGED <<lockFrame, reservoirState, loc, ret, smutex, hmutex>>

\* Update, Snapshot and Clear of NilSampleFloat64 return at once
NilReturn(t) ==
  /\ pc[t] \in {"u_lock", "s_lock", "c_clock"}
  /\ kind = "nil"
  /\ pc' = [pc EXCEPT ![t] = "done"]
  /\ UNCHANGED <<lockFrame, panicked, reservoirState, loc, ret, smutex, hmutex>>

\* what goroutine t does next inside its call, lock acquisitions apart
Proceed(t) ==
  \/ UnlockSample(t)
  \/ UpdateCount(t)
  \/ UpdateStore(t)
  \/ UpdatePanic(t)
  \/ SnapshotRead(t)
  \/ ClearCount(t)
  \/ ClearValues(t)
  \/ ClearPanic(t)
  \/ NilReturn(t)
  \/ UnlockHistogram(t)

NextLock ==
  \/ \E t \in LockWorkers, op \in {"Update", "Snapshot", "Clear", "SampleClear"} : Call(t, op)
  \/ \E t \in LockWorkers : LockSample(t)
  \/ \E t \in LockWorkers : LockHistogram(t)
  \/ \E t \in LockWorkers : Proceed(t)

\* Every goroutine inside a call keeps running. sync.Mutex hands the lock to
\* a waiter that has waited long (starvation mode), so a goroutine that finds
\* the mutex free again and again gets it.
FairLock ==
  \A t \in LockWorkers :
    /\ WF_vars(Proceed(t))
    /\ SF_vars(LockSample(t))
    /\ SF_vars(LockHistogram(t))

SpecLock == InitLock /\ [][NextLock]_vars /\ FairLock

(* ------- a live reservoir of any capacity, every operation on it ------- *)
\* the capacities of the reservoir, 0 among them
ResCapacities == {0, MaxCap}

\* NewUniformSampleFloat64(c) / NewExpDecaySampleFloat64(c, alpha) with a
\* capacity c >= 0, at time 0
InitRes ==
  /\ kind \in Kinds
  /\ reservoirSize \in ResCapacities
  /\ alpha \in (IF kind = "expdecay" THEN {1} ELSE {0})
  /\ count = 0
  /\ uvalues = IF kind = "uniform" THEN [a |-> 1, n |-> 0] ELSE NilSlice
  /\ mem = [a \in Addr |-> IF kind = "uniform" /\ a = 1
                             THEN MakeArray(reservoirSize) ELSE <<>>]
  /\ heap = newExpDecaySampleFloat64Heap(IF kind = "expdecay" THEN reservoirSize ELSE 0)
  /\ now = 0
  /\ t0 = 0
  /\ t1 = IF kind = "expdecay" THEN rescaleThreshold ELSE 0
  /\ snap = NoSnap
  /\ panicked = ""
  /\ pushed = EmptyBag
  /\ caller = NilSlice
  /\ NoGoroutines

resFrame == <<kind, reservoirSize, alpha, snap, pc, loc, ret, orig, smutex, hmutex,
              UseNilMetrics, hist, recv>>

\* the clock moves on between two calls
ResTick(d) ==
  /\ Tick(d)
  /\ last' = NoCall
  /\ UNCHANGED <<pushed, caller, pc, loc, ret, orig, smutex, hmutex, UseNilMetrics, hist, recv>>

\* UniformSampleFloat64.Update(v); r is drawn only when the array is full
ResUniformUpdate(v, r) ==
  /\ kind = "uniform"
  /\ count < MaxCount
  /\ r \in (IF uvalues.n < reservoirSize THEN {0} ELSE 0..count)
  /\ LET st == UniformStore(mem, uvalues, reservoirSize, v, r) IN
       /\ count' = count + 1
       /\ mem' = st.mem
       /\ uvalues' = st.values
  /\ panicked' = ""
  /\ last' = [op |-> "Update", arg |-> v, val |-> r]
  /\ UNCHANGED <<resFrame, heap, t0, t1, now, pushed, caller>>

\* ExpDecaySampleFloat64.Update(v) at time now, with the draw j; s.count++
\* comes first, and Pop on the empty heap of capacity 0 panics
ResDecayUpdate(v, j) ==
  /\ kind = "expdecay"
  /\ count < MaxCount
  /\ count' = count + 1
  /\ IF PopPanics(heap, reservoirSize)
       THEN /\ panicked' = "index out of range"
            /\ UNCHANGED <<heap, t0, t1>>
       ELSE LET st == ExpDecayUpdate(heap, reservoirSize, alpha, t0, t1, now, v, j) IN
            /\ heap' = DropDead(st.heap)
            /\ t0' = st.t0
            /\ t1' = st.t1
            /\ panicked' = ""
  /\ last' = [op |-> "Update", arg |-> v, val |-> 0]
  /\ UNCHANGED <<resFrame, uvalues, mem, now, pushed, caller>>

\* Clear() of the reservoir; the caller's slice stays alive
ResClear ==
  /\ LET st == ClearedSample(mem, [values |-> caller]) IN
       /\ count' = st.count
       /\ uvalues' = st.values
       /\ mem' = st.mem
       /\ heap' = DropDead(st.heap)
       /\ t0' = st.t0
       /\ t1' = st.t1
  /\ panicked' = ""
  /\ last' = [op |-> "Clear", arg |-> 0, val |-> 0]
  /\ UNCHANGED <<resFrame, now, pushed, caller>>

\* Count(), Size(), Min(), Max(), Mean(), Sum(), StdDev(), Variance() and
\* Snapshot(), called one after the other: each reads s.count or the retained
\* values under the lock, and Snapshot() returns the count and a copy
ResReads ==
  /\ last' = [op |-> "Reads", arg |-> 0,
              val |-> [stat |-> [op \in StatOps |-> Statistic(op, LiveValues)],
                       count |-> count,
                       snapshot |-> [count |-> count, values |-> LiveValues]]]
  /\ panicked' = ""
  /\ UNCHANGED <<resFrame, sampleVars, now, pushed, caller>>

\* Percentiles(ps), and Percentile(p) as Percentiles([p])[0]: the uniform
\* reservoir sorts s.values in place, the decaying one sorts a copy
ResPercentiles(ps) ==
  /\ last' = [op |-> "Percentiles", arg |-> 0,
              val |-> SampleFloat64Percentiles(LiveValues, ps)]
  /\ mem' = IF kind = "uniform" /\ uvalues.n > 0
              THEN [mem EXCEPT ![uvalues.a] =
                      SortSlice(SliceSeq(mem, uvalues)) \o SubSeq(@, uvalues.n + 1, Len(@))]
              ELSE mem
  /\ panicked' = ""
  /\ UNCHANGED <<resFrame, count, uvalues, heap, t0, t1, now, pushed, caller>>

\* values := s.Values(); values[i] = 0: Values() makes a slice and copies
\* the retained values under the lock; the caller writes into the slice it
\* got and lets go of it
ResValuesWrite(i) ==
  /\ LET st == TakeSnapshot(mem, uvalues, LiveValues, count, FALSE)
         sl == st.snap.values
     IN mem' = Collect(IF i <= sl.n THEN [st.mem EXCEPT ![sl.a][i] = 0] ELSE st.mem,
                       {uvalues})
  /\ panicked' = ""
  /\ last' = [op |-> "Values", arg |-> 0, val |-> LiveValues]
  /\ UNCHANGED <<resFrame, count, uvalues, heap, t0, t1, now, pushed, caller>>

\* the lists the caller hands to Percentiles
ResPercentLists == {<<0>>, <<PDen, 2>>}

NextRes ==
  \/ \E d \in TimeSteps : ResTick(d)
  \/ \E v \in LifeVals, r \in 0..MaxCount : ResUniformUpdate(v, r)
  \/ \E v \in LifeVals, j \in Draws : ResDecayUpdate(v, j)
  \/ ResClear
  \/ ResReads
  \/ \E ps \in ResPercentLists : ResPercentiles(ps)
  \/ \E i \in 1..MaxCap : ResValuesWrite(i)

SpecRes == InitRes /\ [][NextRes]_vars

(* ------------------- StandardLevelCounter, goroutines ------------------ *)
\* `count` is here the count field of the StandardCounter that a
\* StandardLevelCounter embeds; each goroutine makes one call on the counter.
LevelOps == {"Inc", "Dec", "Snapshot"}

\* NewLevelCounter(): &StandardLevelCounter{StandardCounter{0}}
InitLevel ==
  /\ kind = "none"
  /\ reservoirSize = 0
  /\ alpha = 0
  /\ count = 0
  /\ uvalues = NilSlice
  /\ mem = [a \in Addr |-> <<>>]
  /\ heap = newExpDecaySampleFloat64Heap(0)
  /\ now = 0
  /\ t0 = 0
  /\ t1 = 0
  /\ snap = NoSnap
  /\ panicked = ""
  /\ pushed = EmptyBag
  /\ caller = NilSlice
  /\ orig = <<>>
  /\ smutex = 0
  /\ hmutex = 0
  /\ pc = [t \in Workers |-> "idle"]
  /\ loc = [t \in Workers |-> [op |-> "", arg |-> 0]]
  /\ ret = [t \in Workers |-> NoResult]
  /\ NoLifecycle

levelFrame == <<kind, reservoirSize, alpha, uvalues, mem, heap, now, t0, t1, snap,
                panicked, pushed, caller, orig, smutex, hmutex, lifeVars>>

\* a goroutine calls c.Inc(i), c.Dec(i) or c.Snapshot()
LevelCall(t, op, i) ==
  /\ pc[t] = "idle"
  /\ loc' = [loc EXCEPT ![t] = [op |-> op, arg |-> IF op = "Snapshot" THEN 0 ELSE i]]
  /\ pc' = [pc EXCEPT ![t] = CASE op = "Inc" -> "l_inc"
                               [] op = "Dec" -> "l_dec"
                               [] op = "Snapshot" -> "l_load"]
  /\ UNCHANGED <<levelFrame, count, ret>>

\* StandardCounter.Inc: atomic.AddInt64(&c.count, i), one atomic step
LevelInc(t) ==
  /\ pc[t] = "l_inc"
  /\ count' = count + loc[t].arg
  /\ pc' = [pc EXCEPT ![t] = "done"]
  /\ UNCHANGED <<levelFrame, loc, ret>>

\* a Dec that adds i
DecDeltaUnsigned(i) == i

\* the second argument of atomic.AddInt64 in Dec
DecDelta(i) == 0 - i

\* StandardLevelCounter.Dec: atomic.AddInt64(&c.count, -i), one atomic step
LevelDec(t) ==
  /\ pc[t] = "l_dec"
  /\ count' = count + DecDelta(loc[t].arg)
  /\ pc' = [pc EXCEPT ![t] = "done"]
  /\ UNCHANGED <<levelFrame, loc, ret>>

\* StandardLevelCounter.Snapshot: LevelCounterSnapshot(c.Count()), an int64
\* value; Count() is one atomic load
LevelSnapshot(t) ==
  /\ pc[t] = "l_load"
  /\ ret' = [ret EXCEPT ![t] = [count |-> count, values |-> <<>>]]
  /\ pc' = [pc EXCEPT ![t] = "done"]
  /\ UNCHANGED <<levelFrame, count, loc>>

NextLevel ==
  \/ \E t \in Workers, op \in LevelOps, i \in Vals : LevelCall(t, op, i)
  \/ \E t \in Workers : LevelInc(t)
  \/ \E t \in Workers : LevelDec(t)
  \/ \E t \in Workers : LevelSnapshot(t)

SpecLevel == InitLevel /\ [][NextLevel]_vars

(* ------------------------------ claims --------------------------------- *)
\* C1: in every reachable state of a live reservoir of capacity C >= 1 the
\* retained size is at most C and Count() is the number of Updates since
\* construction or the last Clear.
C1_SizeBoundedCountExact ==
  /\ LiveSize <= reservoirSize
  /\ Len(LiveValues) = LiveSize
  /\ count = BagCardinality(pushed)

\* more Updates than the capacity, across a rescale, in the decaying reservoir
C1_Witness ==
  /\ kind = "expdecay"
  /\ count > reservoirSize
  /\ LiveSize = reservoirSize
  /\ t0 > 0

\* C5: while no more than C values were pushed since construction or Clear,
\* Values() is exactly the multiset of the pushed values and Size() = Count().
C5_NoLossBelowCapacity ==
  count <= reservoirSize =>
    /\ BagOfSeq(LiveValues) = pushed
    /\ LiveSize = count

\* a decaying reservoir filled to its capacity with two different values
C5_Witness ==
  /\ kind = "expdecay"
  /\ reservoirSize >= 2
  /\ count = reservoirSize
  /\ Cardinality(Range(LiveValues)) >= 2

\* C6: the retained values are a sub-multiset of the values pushed since
\* construction or Clear, and Size() = min(Count(), C).
C6_RetainedSubBagOfPushed ==
  /\ BagOfSeq(LiveValues) \sqsubseteq pushed
  /\ LiveSize = Min2(count, reservoirSize)

\* a full reservoir that has dropped a value it was given
C6_Witness ==
  /\ count > reservoirSize
  /\ LiveSize = reservoirSize
  /\ BagOfSeq(LiveValues) # pushed
  /\ \E x \in Vals : x \in DOMAIN pushed /\ x \notin Range(LiveValues)

\* C3: with no other caller, Clear() of the histogram returns a snapshot with
\* the Count() and the multiset of retained values the live instance had just
\* before, and leaves the live instance with Count() = 0 and Size() = 0.
C3_ClearRoundTrip ==
  [][HistClear =>
       /\ snap'.count = count
       /\ BagOfSeq(SnapValues') = BagOfSeq(LiveValues)
       /\ count' = 0
       /\ LiveSize' = 0
       /\ LiveValues' = <<>>]_vars

\* a Clear() of a reservoir that had seen more values than it holds
C3_Witness ==
  /\ snap.hist
  /\ snap.count > reservoirSize
  /\ snap.values.n = reservoirSize
  /\ count = 0
  /\ LiveSize = 0

\* C4: once a snapshot is taken, no Update or Clear on the live reservoir
\* changes the snapshot's Count() or the values its Values() returns.
C4_SnapshotUnaffectedByLive ==
  [][(snap # NoSnap /\ (SampleClear \/ \E v \in Vals : Update(v))) =>
       /\ snap'.count = snap.count
       /\ SnapValues' = SnapValues]_vars

\* a snapshot of a full uniform reservoir that was updated afterwards
C4_Witness ==
  /\ kind = "uniform"
  /\ snap # NoSnap
  /\ snap.values.n = reservoirSize
  /\ count > snap.count
  /\ LiveValues # SnapValues

\* C9: a Snapshot's count and values never change after construction, whatever
\* is read from it and whatever the caller does to a slice returned by Values()
\* or to the slice it passed to NewSampleFloat64Snapshot.
C9_SnapshotNeverChanges ==
  [][snap # NoSnap =>
       /\ snap'.count = snap.count
       /\ BagOfSeq(SnapValues') = BagOfSeq(SnapValues)]_vars

\* C10: Update or Clear on a frozen instance always panics, and the instance
\* has the same count and values after the call as before it.
C10_MisusePanics ==
  [][(snap # NoSnap /\ (SnapClear \/ \E v \in Vals : SnapUpdate(v))) =>
       /\ panicked' # ""
       /\ snap' = snap
       /\ SnapValues' = SnapValues]_vars

\* a histogram snapshot holding values after a refused Update
C10_Witness ==
  /\ snap.hist
  /\ snap.values.n > 0
  /\ panicked = "Update called on a HistogramSnapshotFloat64"

\* C8: concurrent read operations on one Snapshot, without a lock, leave the
\* multiset of its values unchanged, and each call returns what it returns
\* when executed alone (Values() up to the order of the values).
C8_ConcurrentSnapshotReads ==
  (\A t \in Readers : pc[t] = "done") =>
    /\ BagOfSeq(SnapValues) = BagOfSeq(orig)
    /\ \A t \in Readers :
         IF loc[t].op = "Values" THEN SortSlice(ret[t]) = Alone(t)
                                 ELSE ret[t] = Alone(t)

\* C2: when one Clear() of the histogram runs beside Updates, every Update is
\* counted exactly once, in the snapshot Clear returns or in the live
\* histogram afterwards: once all calls have returned, the two counts add up
\* to the number of Updates.
C2_ClearLosesNoUpdate ==
  (\A t \in Workers : pc[t] = "done") =>
    \A c \in Workers :
      loc[c].op = "Clear" =>
        ret[c].count + count = Cardinality({u \in Workers : loc[u].op = "Update"})

\* C7: every Snapshot() taken while other goroutines update or clear the
\* reservoir holds min(Count(), capacity) values: it never sees an Update or a
\* Clear that is half applied.
C7_ReadsAreConsistent ==
  \A t \in Workers :
    /\ ret[t].count >= 0 => Len(ret[t].values) = Min2(ret[t].count, reservoirSize)
    /\ loc[t].snap.count >= 0 =>
         Len(loc[t].snap.values) = Min2(loc[t].snap.count, reservoirSize)

\* a Snapshot() has read the reservoir while an Update waits for the lock and
\* after another Update was applied
C7_Witness ==
  \E t, u \in Workers :
    /\ pc[t] = "s_unlock"
    /\ ret[t].count > 0
    /\ pc[u] = "u_lock"

(* the values of q in ascending order, and the k-th smallest of them *)
Ascending(q) ==
  CHOOSE a \in [1..Len(q) -> Range(q)] :
    /\ \A i \in 1..(Len(q) - 1) : a[i] <= a[i + 1]
    /\ BagOfSeq(a) = BagOfSeq(q)

\* the percentile rule on the ascending values: pos = p * (n + 1) as a fraction
PercentileRule(q, pn) ==
  LET n      == Len(q)
      sorted == Ascending(q)
      pos    == Rat(pn * (n + 1), PDen)
      floor  == pos.num \div pos.den
      frac   == RatSub(pos, Rat(floor, 1))
  IN IF pos.num < pos.den THEN Rat(sorted[1], 1)
     ELSE IF pos.num >= n * pos.den THEN Rat(sorted[n], 1)
     ELSE RatAdd(Rat(sorted[floor], 1),
                 RatMul(frac, Rat(sorted[floor + 1] - sorted[floor], 1)))

\* C16: on a non-empty collection Percentile(p) follows the rule (smallest
\* value below pos 1, largest from pos n on, linear interpolation between the
\* two neighbours otherwise), and Percentiles(ps) returns Percentile(ps[i])
\* for each i, in the order and with the length of ps.
C16_PercentileRule ==
  /\ (last.op = "Percentile" /\ Len(orig) > 0) =>
       Rat(last.val, PDen) = PercentileRule(orig, last.arg)
  /\ last.op = "Percentiles" =>
       /\ Len(last.val) = Len(last.arg)
       /\ \A i \in 1..Len(last.arg) :
            last.val[i] = SampleFloat64Percentile(orig, last.arg[i])

\* an interpolated percentile, strictly between two different neighbours, of
\* values given out of order
C16_Witness ==
  /\ last.op = "Percentile"
  /\ Len(orig) > 1
  /\ orig[1] > orig[2]
  /\ \A i \in 1..Len(orig) : last.val # orig[i] * PDen

\* C17: Variance is the population variance, the sum of the squared
\* deviations from Mean = Sum / n divided by n; for 2,4,4,4,5,5,7,9 the mean
\* is 5 and the variance 4.
C17_PopulationVariance ==
  LET n  == Len(orig)
      s1 == SampleFloat64Sum(orig)
      s2 == SampleFloat64Sum([i \in 1..n |-> orig[i] * orig[i]])
  IN /\ (last.op = "Variance" /\ n > 0) => last.val = Rat(n * s2 - s1 * s1, n * n)
     /\ (last.op = "Mean" /\ n > 0) => last.val = Rat(s1, n)
     /\ (last.op = "Variance" /\ orig = ReferenceCase) => last.val = Rat(4, 1)
     /\ (last.op = "Mean" /\ orig = ReferenceCase) => last.val = Rat(5, 1)

\* the variance of the reference values has been computed
C17_Witness ==
  /\ last.op = "Variance"
  /\ orig = ReferenceCase
  /\ last.val.num = 4

(* the calls of the caller on the instance it holds *)
InstanceOps == {"Snapshot", "Clear", "Sample"}
\* The step is the call `op` on recv: every call leaves its name in last, and
\* Hold, SetUseNilMetrics and the constructors leave another one.
Called(op) == last'.op = op
AnyCall == last'.op \in InstanceOps \cup {"Reads", "Update"}
\* a reservoir, or a histogram over a reservoir (C14 is about the histogram
\* over a Null reservoir)
LiveOverLive(ty) == Variant(ty) = "Live" /\ Variant(SampleOf(ty)) = "Live"

\* C11: an instance is Live, Snapshot or Null for its whole life. Snapshot()
\* on a Live instance yields a Snapshot and leaves the Live instance unchanged,
\* Snapshot() on a Snapshot yields that Snapshot, Snapshot() and Clear() on a
\* Null yield a Null, and no call on a Snapshot or a Null yields a Live
\* instance or changes a reservoir.
C11_Lifecycle ==
  [][/\ AnyCall => (recv' = recv /\ Variant(recv) \in {"Live", "Snapshot", "Null"})
     /\ (Called("Snapshot") /\ Variant(recv) = "Live") =>
          /\ panicked' = ""
          /\ Variant(last'.val) = "Snapshot"
          /\ snap'.count = count
          /\ BagOfSeq(SnapValues') = BagOfSeq(LiveValues)
          /\ count' = count
          /\ LiveValues' = LiveValues
     /\ (Called("Snapshot") /\ Variant(recv) = "Snapshot") =>
          (last'.val = recv /\ snap' = snap /\ SnapValues' = SnapValues)
     /\ ((Called("Snapshot") \/ Called("Clear")) /\ Variant(recv) = "Null") =>
          (panicked' = "" /\ last'.val \in NullTypes \cup {""})
     /\ (AnyCall /\ Variant(recv) \in {"Snapshot", "Null"}) =>
          /\ last'.op \in InstanceOps => last'.val \notin LiveTypes
          /\ count' = count
          /\ LiveValues' = LiveValues]_vars

\* Snapshot() was called on a snapshot that holds values
C11_Witness ==
  /\ Variant(recv) = "Snapshot"
  /\ last.op = "Snapshot"
  /\ last.val = recv
  /\ snap.values.n > 0

\* C12: the Null instances are inert: whatever Update and Clear calls came
\* before, Count, Size, Min, Max, Sum are 0, Mean, StdDev, Variance are 0,
\* Values() is empty, Percentile(p) is 0 and Percentiles(ps) is a list of
\* Len(ps) zeros.
C12_NullIsInert ==
  (Variant(recv) = "Null" /\ last.op = "Reads") =>
    /\ \A op \in {"Count", "Size", "Min", "Max", "Sum"} : last.val.stat[op] = 0
    /\ \A op \in {"Mean", "StdDev", "Variance"} : last.val.stat[op] = RatZero
    /\ last.val.stat["Values"] = <<>>
    /\ \A pn \in Percents : last.val.percentile[pn] = 0
    /\ \A ps \in LifePercentLists :
         /\ Len(last.val.percentiles[ps]) = Len(ps)
         /\ \A i \in 1..Len(ps) : last.val.percentiles[ps][i] = 0

\* a Null histogram, made while a reservoir with values exists, has been read
C12_Witness ==
  /\ recv = "NilHistogramFloat64"
  /\ last.op = "Reads"
  /\ count > 0

\* C13: UseNilMetrics is read by the constructors only: the constructor
\* returns the Null variant exactly when the switch is on at that moment,
\* setting the switch changes no instance, and every later call runs by the
\* variant of its receiver whatever the switch says.
C13_SwitchReadAtConstruction ==
  [][/\ (Called("New") /\ kind = "none") => ((kind' = "nil") <=> UseNilMetrics)
     /\ (Called("New") /\ kind # "none") => ((hist' = "nil") <=> UseNilMetrics)
     /\ UseNilMetrics' # UseNilMetrics => UNCHANGED <<reservoirFields, snap, hist, recv>>
     /\ (Called("Update") /\ LiveOverLive(recv)) => count' = count + 1
     /\ (Called("Update") /\ Variant(recv) = "Null") => count' = count
     /\ Called("Reads") => last'.val = ReadResult(SampleOf(recv))]_vars

\* an Update has just been counted by a live reservoir while the switch is on
C13_Witness ==
  /\ UseNilMetrics
  /\ LiveOverLive(recv)
  /\ last.op = "Update"
  /\ count > 0

\* C14: on a histogram over any reservoir the constructors return (uniform,
\* decaying or Null), Update, the reads, Snapshot() and Clear() return without
\* a panic, and Snapshot() and Clear() return a frozen instance.
C14_HistogramOverAnyReservoir ==
  (recv = "*StandardHistogramFloat64" /\ last.op \in {"Update", "Reads", "Snapshot", "Clear"}) =>
    /\ panicked = ""
    /\ last.op \in {"Snapshot", "Clear"} => Variant(last.val) = "Snapshot"

\* C15: when an instance retains no values (a new reservoir, a reservoir after
\* Clear, an empty snapshot), Min, Max, Sum, Mean, StdDev and Variance are 0,
\* Percentile(p) is 0 for every p, Percentiles(ps) is all zeros, and no call
\* fails.
C15_ZeroValuePolicy ==
  (last.op = "Reads" /\ ValuesOf(SampleOf(recv)) = <<>>) =>
    /\ panicked = ""
    /\ \A op \in {"Min", "Max", "Sum"} : last.val.stat[op] = 0
    /\ \A op \in {"Mean", "StdDev", "Variance"} : last.val.stat[op] = RatZero
    /\ \A pn \in Percents : last.val.percentile[pn] = 0
    /\ \A ps \in LifePercentLists :
         \A i \in 1..Len(ps) : last.val.percentiles[ps][i] = 0

\* a histogram is read right after a Clear that returned a snapshot with values
C15_Witness ==
  /\ recv = "*StandardHistogramFloat64"
  /\ last.op = "Reads"
  /\ count = 0
  /\ snap # NoSnap
  /\ snap.values.n > 0

\* C18: in every reachable state every key in the heap of the decaying
\* reservoir is a positive finite number: never 0, never infinite (and never
\* NaN), whatever the draws and the update times.
C18_KeysPositiveFinite ==
  kind = "expdecay" =>
    \A i \in 0..(heap.n - 1) : heap.s[i].k \notin {KZero, KInf, KNaN}

\* the entries of h with every key multiplied by f
ScaledEntries(h, f) == [i \in 1..h.n |-> [k |-> KeyMul(h.s[i - 1].k, f), v |-> h.s[i - 1].v]]

\* C20: when an update at a time after t1 rescales, the heap afterwards holds
\* the entries it held after the push, no more and no fewer, with the same
\* values and with every key multiplied once by exp(-alpha * (now - old t0)),
\* and t0 is now.
C20_RescalePreservesSample ==
  [][(kind = "expdecay" /\ count' = count + 1 /\ now > t1) =>
       \E v \in Vals, j \in Draws :
         LET pre == ExpDecayStore(heap, reservoirSize, alpha, now - t0, v, j)
             f   == RescaleFactor(alpha, now - t0)
         IN /\ pushed' = pushed (+) SetToBag({v})
            /\ heap'.n = pre.n
            /\ BagOfSeq(HeapEntries(heap')) = BagOfSeq(ScaledEntries(pre, f))
            /\ t0' = now]_vars

\* a heap of two or more entries right after a rescale: a key below 1 that is
\* not 0, and t0 at the current time
C20_Witness ==
  /\ kind = "expdecay"
  /\ heap.n >= 2
  /\ t0 = now
  /\ \E i \in 0..(heap.n - 1) : heap.s[i].k < 0 /\ heap.s[i].k > KZero

\* the places in a call where goroutine t holds the reservoir's mutex
HoldsSample(t) ==
  pc[t] \in {"u_inc", "u_store", "u_unlock", "s_read", "s_unlock",
             "c_read", "c_sunlock", "c_zero", "c_reset", "c_cunlock"}

KeyLeq(k1, k2) == k1 # KNaN /\ k2 # KNaN /\ k1 <= k2

\* the heap h without its entry at index i
HeapWithout(h, i) ==
  [s |-> [m \in DOMAIN h.s |-> IF m < i THEN h.s[m]
                               ELSE IF m < h.n - 1 THEN h.s[m + 1] ELSE ZeroEntry],
   n |-> h.n - 1]

\* C21: an Update on a decaying reservoir that holds capacity entries removes
\* exactly one entry, one whose key is minimal among the entries held before
\* the Update, and inserts the new (key, value) entry, so that the new value
\* is retained right after its own Update (the keys rescaled when the Update
\* also rescales).
C21_EvictsMinimumKey ==
  [][(kind = "expdecay" /\ count' = count + 1 /\ HeapSize(heap) = reservoirSize) =>
       \E v \in Vals, j \in Draws, i \in 0..(heap.n - 1) :
         LET e == [k |-> KeyDiv(ExpKey(now - t0, alpha), j), v |-> v]
             f == IF now > t1 THEN RescaleFactor(alpha, now - t0) ELSE 0
         IN /\ pushed' = pushed (+) SetToBag({v})
            /\ \A m \in 0..(heap.n - 1) : m # i => KeyLeq(heap.s[i].k, heap.s[m].k)
            /\ HeapSize(heap') = reservoirSize
            /\ BagOfSeq(HeapEntries(heap')) =
                 BagOfSeq(ScaledEntries(HeapPush(HeapWithout(heap, i), e), f))
            /\ \E m \in 0..(heap'.n - 1) : heap'.s[m].v = v]_vars

\* every entry's key is >= the key of its parent
HeapOrdered(h) == \A i \in 1..(h.n - 1) : KeyLeq(h.s[Parent(i)].k, h.s[i].k)

\* C22: in every state the decaying reservoir is left in (after its Push, Pop,
\* Clear and rescale), every entry's key is >= the key of its parent, so the
\* root holds a minimum key; and Pop on the heap, when it is not empty, takes
\* out an entry with a minimum key, leaves one entry fewer and leaves the
\* heap ordered.
C22_MinHeapInvariant ==
  kind = "expdecay" =>
    /\ HeapOrdered(heap)
    /\ \A i \in 1..(heap.n - 1) : KeyLeq(heap.s[0].k, heap.s[i].k)
    /\ HeapSize(heap) > 0 =>
         LET p == HeapPop(heap) IN
         /\ HeapSize(p) = HeapSize(heap) - 1
         /\ \A i \in 0..(p.n - 1) : KeyLeq(p.s[p.n].k, p.s[i].k)
         /\ HeapOrdered(p)

\* C23: Count() is changed by Update and Clear only. Every Update adds
\* exactly 1, retained or not, Clear sets it to 0, no read (Size, Values,
\* Snapshot, Min, Max, Mean, Sum, StdDev, Variance, Percentile, Percentiles)
\* and no tick of the clock changes it, and Count() >= Size() always.
C23_CountChangedByUpdateAndClear ==
  /\ [](count >= LiveSize)
  /\ [][/\ Called("Update") => count' = count + 1
        /\ Called("Clear") => count' = 0
        /\ ~(Called("Update") \/ Called("Clear")) => count' = count]_vars

\* a uniform reservoir that has seen more values than it holds, just read
C23_Witness ==
  /\ kind = "uniform"
  /\ LiveSize > 0
  /\ count > LiveSize
  /\ last.op = "Percentiles"

\* C24: an Update(v) on a full uniform reservoir draws r in [0, count), count
\* already incremented; for r < capacity slot r becomes v and no other slot
\* changes, otherwise no slot changes; the reservoir stays full.
C24_UniformAtCapacity ==
  [][(kind = "uniform" /\ Called("Update") /\ uvalues.n = reservoirSize) =>
       /\ last'.val \in 0..(count' - 1)
       /\ Len(LiveValues') = reservoirSize
       /\ IF last'.val < reservoirSize
            THEN LiveValues' = [LiveValues EXCEPT ![last'.val + 1] = last'.arg]
            ELSE LiveValues' = LiveValues]_vars

\* the second slot of a full reservoir has just been overwritten, the first
\* one still holds another value
C24_Witness ==
  /\ kind = "uniform"
  /\ last.op = "Update"
  /\ reservoirSize >= 2
  /\ count > reservoirSize
  /\ last.val = 1
  /\ LiveValues[2] = last.arg
  /\ LiveValues[1] # last.arg

\* C25: t1 = t0 + rescaleThreshold in every state of the decaying reservoir;
\* an update at time now rescales, after which t0 = now, exactly when now is
\* strictly after t1; Clear sets t0 to now and t1 with it; no read and no
\* tick of the clock changes t0 or t1.
C25_ClockWindow ==
  /\ [](kind = "expdecay" => t1 = t0 + rescaleThreshold)
  /\ [][kind = "expdecay" =>
          /\ Called("Update") =>
               IF now > t1 THEN t0' = now /\ t1' = now + rescaleThreshold
                           ELSE t0' = t0 /\ t1' = t1
          /\ Called("Clear") => (t0' = now /\ t1' = now + rescaleThreshold)
          /\ ~(Called("Update") \/ Called("Clear")) => (t0' = t0 /\ t1' = t1)]_vars

\* C26: a live reservoir of capacity 0 is usable: no Update fails, every
\* Update adds 1 to Count(), and Size() stays 0, for the uniform and for the
\* decaying reservoir.
C26_CapacityZeroUsable ==
  /\ [](reservoirSize = 0 => (panicked = "" /\ LiveSize = 0))
  /\ [][(reservoirSize = 0 /\ Called("Update")) => count' = count + 1]_vars

\* C27: no read of a live reservoir has an effect. Min, Max, Mean, Sum,
\* StdDev, Variance, Size, Snapshot, Percentile, Percentiles and Values leave
\* Count() and the multiset of the retained values as they are; only the
\* Percentiles of the uniform reservoir may reorder the slots; and writing
\* into the slice Values() returned changes nothing in the reservoir.
C27_ReadsHaveNoEffect ==
  [][last'.op \in {"Reads", "Percentiles", "Values"} =>
       /\ count' = count
       /\ BagOfSeq(LiveValues') = BagOfSeq(LiveValues)
       /\ (kind = "expdecay" \/ last'.op # "Percentiles") => LiveValues' = LiveValues
       /\ heap' = heap
       /\ uvalues' = uvalues
       /\ t0' = t0
       /\ t1' = t1]_vars

\* the caller has written into the slice Values() gave it, of a reservoir that
\* holds two values out of order
C27_Witness ==
  /\ kind = "uniform"
  /\ last.op = "Values"
  /\ LiveSize >= 2
  /\ LiveValues[1] > LiveValues[2]
  /\ last.val = LiveValues

\* the indexes (from 1) of the sorted values that the score for p reads
ScoreIndexes(size, pn) ==
  LET pos == pn * (size + 1) IN
  IF pos < PDen THEN {1}
  ELSE IF pos >= size * PDen THEN {size}
  ELSE {pos \div PDen, (pos \div PDen) + 1}

\* C28: on a non-empty collection, for every p, also below 0 and above 1,
\* Percentile(p) reads no index outside the collection, returns a value
\* between Min and Max, and does not decrease when p grows.
C28_PercentileWithinBounds ==
  Len(orig) > 0 =>
    /\ \A pn \in AnyPercents : ScoreIndexes(Len(orig), pn) \subseteq 1..Len(orig)
    /\ last.op = "Percentile" =>
         /\ panicked = ""
         /\ last.val >= SampleFloat64Min(orig) * PDen
         /\ last.val <= SampleFloat64Max(orig) * PDen
    /\ \A p1, p2 \in AnyPercents :
         p1 <= p2 => SampleFloat64Percentile(orig, p1) <= SampleFloat64Percentile(orig, p2)

\* Percentile(p) for a p above 1, of values given out of order
C28_Witness ==
  /\ last.op = "Percentile"
  /\ last.arg > PDen
  /\ Len(orig) >= 2
  /\ orig[1] > orig[2]
  /\ last.val = SampleFloat64Max(orig) * PDen

\* what the calls of the goroutines in S that have returned add up to
RECURSIVE LevelApplied(_)
LevelApplied(S) ==
  IF S = {} THEN 0
  ELSE LET t == CHOOSE x \in S : TRUE
           d == IF pc[t] # "done" THEN 0
                ELSE IF loc[t].op = "Inc" THEN loc[t].arg
                ELSE IF loc[t].op = "Dec" THEN 0 - loc[t].arg
                ELSE 0
       IN d + LevelApplied(S \ {t})

\* C29: a new StandardLevelCounter has Count() = 0; whatever the interleaving
\* of Inc(i) and Dec(j), Count() is the sum of the i minus the sum of the j of
\* the calls that have returned, so that none is lost; and the value
\* Snapshot() returned is the count at the time of the call and stays so
\* whatever Inc and Dec come later.
C29_LevelCounter ==
  /\ [](count = LevelApplied(Workers))
  /\ [][\A t \in Workers :
          /\ (pc[t] = "l_load" /\ pc'[t] = "done") => ret'[t].count = count
          /\ (pc[t] = "done" /\ loc[t].op = "Snapshot") => ret'[t] = ret[t]]_vars

\* every goroutine has returned; a Snapshot() holds a count that the counter,
\* changed since by an Inc and a Dec, no longer has
C29_Witness ==
  /\ \A t \in Workers : pc[t] = "done"
  /\ \E t, u, w \in Workers :
       /\ loc[t].op = "Snapshot"
       /\ loc[u].op = "Inc"
       /\ loc[w].op = "Dec"
       /\ ret[t].count # count
       /\ ret[t].count # 0

====
